---------------------------- MODULE Spec2Model ----------------------------
(***************************************************************************)
(* A model of the journaling archiver zpaq (src/zpaq.cpp).                 *)
(*                                                                         *)
(* Part 1 (specifications Spec, FairSpec): the compression pipeline of     *)
(* Jidac::add -- the producer calling CompressJob::write, the T            *)
(* compressThread workers and the writeThread.  A thread takes one step    *)
(* per Semaphore::wait, per section between lock(mutex) and                *)
(* release(mutex), and per stretch of code that runs outside the mutex. No *)
(* section under the mutex contains a blocking call, so a section is one   *)
(* atomic action and the mutex itself needs no variable.                   *)
(*                                                                         *)
(* Part 2 (specification ArchiveSpec): the archive file under a sequence   *)
(* of add and delete commands.  A command is a process of its own; it      *)
(* takes one step per block it writes to the archive, and it may die       *)
(* between any two of them.  The external tree holds regular files only;   *)
(* attributes are not modelled (every file has attribute 0) and dates are  *)
(* seconds on an abstract clock.                                           *)
(*                                                                         *)
(* Part 3 (specification ExtractSpec): Jidac::extract of the archive the   *)
(* commands of part 2 left, into an empty directory, with T                *)
(* decompressThread workers.  A worker takes one step per section under    *)
(* job.mutex or job.write_mutex and one for decompressing and verifying a  *)
(* block.  One fragment of one d block may be damaged before extraction.   *)
(* Block::Block leaves Block::streaming unset; the value it reads as is    *)
(* chosen freely for each block.  ClobberSpec is the same with files       *)
(* already in the output directory.                                        *)
(*                                                                         *)
(* Part 4 (specifications JournalSpec, ForeignSpec, UntilSpec): the        *)
(* journal. JournalSpec runs add and delete with and without -until, on a  *)
(* clock that may be set back.  ForeignSpec lets another writer append a   *)
(* transaction of one index record to the archive.  UntilSpec follows the  *)
(* -until argument from doCommand to the snapshots read_archive keeps, on  *)
(* 14-digit dates.                                                         *)
(*                                                                         *)
(* Part 5 (specification TestSpec): Jidac::test with T testThread workers  *)
(* on the archive of part 2, one fragment of which may be damaged.         *)
(*                                                                         *)
(* Part 6 (specifications WorkSpec, LargeSpec, PipedSpec, ChunkerSpec):    *)
(* the work the commands share out.  WorkSpec runs add, extract and test   *)
(* on one archive.  LargeSpec runs the loop of Jidac::add that reads       *)
(* fragments and flushes blocks on files of several blocks, PipedSpec      *)
(* hands the blocks it flushes to the pipeline of part 1, and ChunkerSpec  *)
(* reads one file fragment by fragment before and after an insertion.      *)
(*                                                                         *)
(* Part 7 (specifications MalformedSpec, RecoverSpec, TrailerSpec):        *)
(* read_archive and test on archives that are not as add left them.        *)
(* MalformedSpec lets another writer append malformed blocks.  RecoverSpec *)
(* runs add with and without -fragile, lets it die, erases h blocks,       *)
(* damages d blocks and alters their trailers, and reads the archive with  *)
(* the recovery pass.  TrailerSpec runs test on d blocks whose trailers    *)
(* are altered.  A block is found by its locator tag; writeTag and Found   *)
(* follow the description of the archive format, the library that          *)
(* implements them being outside src/.                                     *)
(*                                                                         *)
(* Part 8 (specifications RepeatedSpec, FragmentSpec, SizesSpec,           *)
(* DeniedSpec): more of the archive and of add.  RepeatedSpec lets         *)
(* another writer append fragment tables for fragment IDs that have        *)
(* theirs, FragmentSpec reads files of a few bytes and of several          *)
(* fragments fragment by fragment, SizesSpec runs the loop of add on the   *)
(* sizes of fragments and blocks alone, and DeniedSpec lets files of the   *)
(* tree fail to open.                                                      *)
(*                                                                         *)
(* Part 9 (specifications LockedSpec, OptionSpec): more of extract.        *)
(* LockedSpec splits the threads of extract into one step per mutex        *)
(* taken, the main thread that extracts streaming blocks running beside    *)
(* the workers.  OptionSpec runs extract with and without -fragile.        *)
(***************************************************************************)
EXTENDS Integers, Sequences, FiniteSets, TLC

\* ------------------------------------------------------------------ bounds
MaxThreads == 2        \* largest -threads value T explored
MaxBlocks == 3         \* largest number of data blocks the producer enqueues
MaxCommands == 2       \* largest number of add and delete commands run
MaxJournal == 3        \* the same where commands are run with -until

\* --------------------------------------------------------------- variables
VARIABLES
  qsize,       \* CompressJob::qsize  (T, the number of slots and of workers)
  q,           \* CompressJob::q      slot -> CJ record
  front,       \* CompressJob::front
  job,         \* CompressJob::job    number of workers that took a job number
  csize,       \* CompressJob::csize  compressed block sizes, in writing order
  empty,       \* CompressJob::empty  semaphore
  full,        \* CJ::full            slot -> semaphore
  compressed,  \* CJ::compressed      slot -> semaphore
  pc,          \* thread -> position in its code
  jobNumber,   \* worker -> slot it is bound to (compressThread's jobNumber)
  wcj,         \* writeThread's cj: the slot index it took from job.front
  arg,         \* arguments of the running CompressJob::write call
  k,           \* loop counter k of CompressJob::write
  input,       \* the data blocks Jidac::add will pass to write, in order
  next,        \* how many of them it has passed so far
  passed,      \* history: data blocks passed to write, in call order
  outw,        \* what writeThread has written to job.out, in order
  seen,        \* history: worker -> number of end-of-input marks it consumed
  failed       \* labels of the asserts that have failed

pipeVars == <<qsize, q, front, job, csize, empty, full, compressed, pc,
              jobNumber, wcj, arg, k, input, next, passed, outw, seen, failed>>

\* the archive and the commands that work on it
VARIABLES
  arc,         \* the archive file: the sequence of its blocks
  tree,        \* the external files: path -> date and content, or NoFile
  cmd,         \* where the running command stands ("idle": none runs)
  jd,          \* the running command's Jidac (ht, dt, ver) and its locals
  pending,     \* blocks the running add has made up but not yet written
  hist,        \* history: hist[v] is the archive and what read_archive
               \* made of it when transaction v completed
  ncmd,        \* number of commands started
  edited,      \* the tree was edited since the last command
  last         \* how the last command ended

\* extract
VARIABLES
  ejob,        \* extract's Jidac (ht, dt) and its ExtractJob (block, lastdt,
               \* outf)
  ethread,     \* thread -> position in its code and its locals; 0 is the
               \* thread running Jidac::extract
  outdir,      \* the files extracted: path -> date and content, or NoFile
  eret         \* what extract returned (-1: it has not)

extractVars == <<ejob, ethread, outdir, eret>>

\* the command line
VARIABLES
  until        \* doCommand's reading of -until and the snapshots read_archive
               \* keeps under it (<<>>: no command line is looked at)

cliVars == <<until>>

\* the fragment loop of add on its own
VARIABLES
  chunker      \* a file before and after an edit, and the fragments read
               \* from both so far (<<>>: no file is looked at)

loopVars == <<chunker>>

journalVars ==
  <<arc, tree, cmd, jd, pending, hist, ncmd, edited, last, extractVars>>

archiveVars == <<journalVars, cliVars, loopVars>>

restVars == <<pipeVars, cliVars, loopVars>>

vars == <<pipeVars, archiveVars>>

\* the archive variables while only the pipeline is looked at
ArchiveAtRest ==
  /\ arc = <<>>
  /\ tree = <<>>
  /\ cmd = "idle"
  /\ jd = <<>>
  /\ pending = <<>>
  /\ hist = <<>>
  /\ ncmd = 0
  /\ edited = FALSE
  /\ last = "none"
  /\ ejob = <<>>
  /\ ethread = <<>>
  /\ outdir = <<>>
  /\ eret = 0 - 1

\* the command line while none is looked at
CliAtRest == until = <<>>

\* the fragment loop while no file is looked at on its own
LoopAtRest == chunker = <<>>

\* the pipeline variables while only the archive is looked at
PipelineAtRest ==
  /\ qsize = 1
  /\ q = <<>>
  /\ front = 0
  /\ job = 0
  /\ csize = <<>>
  /\ empty = <<>>
  /\ full = <<>>
  /\ compressed = <<>>
  /\ pc = <<>>
  /\ jobNumber = <<>>
  /\ wcj = 0
  /\ arg = <<>>
  /\ k = 0
  /\ input = <<>>
  /\ next = 0
  /\ passed = <<>>
  /\ outw = <<>>
  /\ seen = <<>>
  /\ failed = {}

\* ----------------------------------------------------------------- threads
Main == 0                         \* the thread running Jidac::add
Writer == MaxThreads + 1          \* the thread running writeThread
Workers == 1..qsize               \* the threads running compressThread
Slots == 0..(qsize - 1)

\* --------------------------------------------------------------- Semaphore
\* pthread build: a count, the threads blocked in pthread_cond_wait and the
\* threads that pthread_cond_signal has woken but that have not yet run on.
SemInit(n) == [sem |-> n, waiting |-> {}, woken |-> {}]

\* Semaphore::signal: ++sem, then pthread_cond_signal wakes one waiter if any.
\* The set of possible results (which waiter wakes is the scheduler's choice).
SemSignal(s) ==
  IF s.waiting = {}
    THEN {[s EXCEPT !.sem = @ + 1]}
    ELSE {[s EXCEPT !.sem = @ + 1, !.waiting = @ \ {t}, !.woken = @ \cup {t}]
            : t \in s.waiting}

\* A thread inside Semaphore::wait can take a step unless it is blocked.
SemCanStep(s, t) == t \notin s.waiting

\* One step of Semaphore::wait by thread t: either it returns from
\* pthread_cond_wait and decrements without looking at sem again, or it
\* enters, and blocks if sem==0, else decrements.
SemWait(s, t) ==
  IF t \in s.woken THEN [s EXCEPT !.woken = @ \ {t}, !.sem = @ - 1]
  ELSE IF s.sem = 0 THEN [s EXCEPT !.waiting = @ \cup {t}]
  ELSE [s EXCEPT !.sem = @ - 1]

\* Does that step make wait() return?
SemReturns(s, t) == t \in s.woken \/ s.sem # 0

\* assert(sem>0) after the optional pthread_cond_wait
SemAssertFails(s, t) == SemReturns(s, t) /\ s.sem <= 0

\* ---------------------------------------------------------------------- CJ
EMPTY == "EMPTY"
FULL == "FULL"
COMPRESSING == "COMPRESSING"
COMPRESSED == "COMPRESSED"
WRITING == "WRITING"
CJStates == {EMPTY, FULL, COMPRESSING, COMPRESSED, WRITING}

\* A StringBuffer: its size in bytes and its contents
NoData == [size |-> 0, data |-> <<>>]
EndOfInput == ""     \* method=="" marks the end of the data

\* CJ::CJ(): state(EMPTY), type(512); strings and buffers empty
CJInit == [state |-> EMPTY, in |-> NoData, out |-> NoData, filename |-> 0,
           method |-> EndOfInput, type |-> 512]

\* The i-th data block handed to the pipeline: payload, name, method, type tag
DataBlock(i) == [data |-> [size |-> i, data |-> <<i>>], filename |-> i,
                 method |-> "1", type |-> i % 2]

\* job.write(sb, 0, ""): the end of input
EndBlock == [data |-> NoData, filename |-> 0, method |-> EndOfInput,
             type |-> 0 - 1]

\* compressBlock: the codec is outside the model; its output is a function
\* of the payload, the file name, the method and the type tag, and is never
\* empty (a block has a header).
compressBlock(cj) ==
  [size |-> cj.in.size + 1,
   data |-> <<cj.filename, cj.method, cj.type, cj.in.data>>]

\* A faulty slot search: the producer takes the slot at front whatever its
\* state.
FirstEmptyAtFront == CHOOSE i \in Slots : (i + front) % qsize = front

\* A faulty slot search: the last EMPTY slot from front instead of the first.
FirstEmptyLast ==
  IF \E i \in Slots : q[(i + front) % qsize].state = EMPTY
    THEN CHOOSE i \in Slots :
           /\ q[(i + front) % qsize].state = EMPTY
           /\ \A i2 \in Slots : i2 > i => q[(i2 + front) % qsize].state # EMPTY
    ELSE qsize

\* the first slot at or after front, cyclically, that is EMPTY (qsize if none)
FirstEmpty ==
  IF \E i \in Slots : q[(i + front) % qsize].state = EMPTY
    THEN CHOOSE i \in Slots :
           /\ q[(i + front) % qsize].state = EMPTY
           /\ \A i2 \in Slots : i2 < i => q[(i2 + front) % qsize].state # EMPTY
    ELSE qsize

\* ----------------------------------------------------------- initial state
Init ==
  /\ qsize \in 1..MaxThreads
  /\ q = [j \in Slots |-> CJInit]
  /\ front = 0
  /\ job = 0
  /\ csize = <<>>
  /\ empty = SemInit(qsize)
  /\ full = [j \in Slots |-> SemInit(0)]
  /\ compressed = [j \in Slots |-> SemInit(0)]
  /\ pc = [t \in {Main, Writer} \cup Workers |->
             IF t = Main THEN "add" ELSE IF t = Writer THEN "w_top"
             ELSE "c_number"]
  /\ jobNumber = [w \in Workers |-> 0]
  /\ wcj = 0
  /\ arg = EndBlock
  /\ k = 0
  /\ input \in {[i \in 1..n |-> DataBlock(i)] : n \in 0..MaxBlocks}
  /\ next = 0
  /\ passed = <<>>
  /\ outw = <<>>
  /\ seen = [w \in Workers |-> 0]
  /\ failed = {}
  /\ ArchiveAtRest
  /\ CliAtRest
  /\ LoopAtRest

\* ------------------------------------------------- Jidac::add, the producer
\* job.write(sb, name, method, type) for the next pending block
AddWriteBlock ==
  /\ pc[Main] = "add"
  /\ next < Len(input)
  /\ arg' = input[next + 1]
  /\ k' = 1
  /\ next' = next + 1
  /\ passed' = Append(passed, input[next + 1])
  /\ pc' = [pc EXCEPT ![Main] = "p_wait"]
  /\ UNCHANGED <<qsize, q, front, job, csize, empty, full, compressed,
                 jobNumber, wcj, input, outw, seen, failed>>
  /\ UNCHANGED archiveVars

\* A faulty end of input: one end mark instead of one per worker.
AddWriteEndOnce ==
  /\ pc[Main] = "add"
  /\ next = Len(input)
  /\ arg' = EndBlock
  /\ k' = 1
  /\ pc' = [pc EXCEPT ![Main] = "p_wait"]
  /\ UNCHANGED <<qsize, q, front, job, csize, empty, full, compressed,
                 jobNumber, wcj, input, next, passed, outw, seen, failed>>
  /\ UNCHANGED archiveVars

\* job.write(sb, 0, "") once every block has been passed
AddWriteEnd ==
  /\ pc[Main] = "add"
  /\ next = Len(input)
  /\ arg' = EndBlock
  /\ k' = qsize
  /\ pc' = [pc EXCEPT ![Main] = "p_wait"]
  /\ UNCHANGED <<qsize, q, front, job, csize, empty, full, compressed,
                 jobNumber, wcj, input, next, passed, outw, seen, failed>>
  /\ UNCHANGED archiveVars

\* CompressJob::write: empty.wait()
WriteWaitEmpty ==
  /\ pc[Main] = "p_wait"
  /\ SemCanStep(empty, Main)
  /\ empty' = SemWait(empty, Main)
  /\ pc' = [pc EXCEPT ![Main] =
              IF SemReturns(empty, Main) THEN "p_fill" ELSE "p_wait"]
  /\ failed' = failed \cup
       (IF SemAssertFails(empty, Main) THEN {"sem>0"} ELSE {})
  /\ UNCHANGED <<qsize, q, front, job, csize, full, compressed,
                 jobNumber, wcj, arg, k, input, next, passed, outw, seen>>
  /\ UNCHANGED archiveVars

\* CompressJob::write: fill the first EMPTY slot from front, signal its
\* worker, release(mutex), assert(i<qsize), --k
WriteFill ==
  /\ pc[Main] = "p_fill"
  /\ LET i == FirstEmpty
         j == (i + front) % qsize
     IN /\ IF i < qsize
             THEN /\ q' = [q EXCEPT ![j] = [@ EXCEPT !.filename = arg.filename,
                                                      !.method = arg.method,
                                                      !.type = arg.type,
                                                      !.in = arg.data,
                                                      !.state = FULL]]
                  /\ \E s \in SemSignal(full[j]) : full' = [full EXCEPT ![j] = s]
                  /\ arg' = [arg EXCEPT !.data = NoData]
                  /\ failed' = failed
             ELSE /\ UNCHANGED <<q, full, arg>>
                  /\ failed' = failed \cup {"i<qsize"}
  /\ k' = k - 1
  /\ pc' = [pc EXCEPT ![Main] =
              IF k > 1 THEN "p_wait"
              ELSE IF arg.method = EndOfInput THEN "join" ELSE "add"]
  /\ UNCHANGED <<qsize, front, job, csize, empty, compressed, jobNumber, wcj,
                 input, next, passed, outw, seen>>
  /\ UNCHANGED archiveVars

\* Jidac::add: join(tid[i]) for every worker, then join(wid)
AddJoin ==
  /\ pc[Main] = "join"
  /\ \A w \in Workers : pc[w] = "c_done"
  /\ pc[Writer] = "w_done"
  /\ pc' = [pc EXCEPT ![Main] = "joined"]
  /\ UNCHANGED <<qsize, q, front, job, csize, empty, full, compressed,
                 jobNumber, wcj, arg, k, input, next, passed, outw, seen,
                 failed>>
  /\ UNCHANGED archiveVars

\* A faulty start of a worker: every worker binds itself to slot 0, so that
\* several threads wait on the same semaphore.
CompressNumberShared(w) ==
  /\ pc[w] = "c_number"
  /\ job = w - 1
  /\ jobNumber' = [jobNumber EXCEPT ![w] = 0]
  /\ job' = job + 1
  /\ failed' = failed
  /\ pc' = [pc EXCEPT ![w] = "c_wait"]
  /\ UNCHANGED <<qsize, q, front, csize, empty, full, compressed, wcj, arg,
                 k, input, next, passed, outw, seen>>
  /\ UNCHANGED archiveVars

\* lock; jobNumber=job.job++; the assert on its range; release.
\* The workers run the same code and are told apart only by the number they
\* take here, so worker w names the w-th thread to take one.
CompressNumber(w) ==
  /\ pc[w] = "c_number"
  /\ job = w - 1
  /\ jobNumber' = [jobNumber EXCEPT ![w] = job]
  /\ job' = job + 1
  /\ failed' = failed \cup
       (IF job >= 0 /\ job < qsize THEN {} ELSE {"jobNumber<qsize"})
  /\ pc' = [pc EXCEPT ![w] = "c_wait"]
  /\ UNCHANGED <<qsize, q, front, csize, empty, full, compressed, wcj, arg,
                 k, input, next, passed, outw, seen>>
  /\ UNCHANGED archiveVars

\* cj.full.wait()
CompressWaitFull(w) ==
  /\ pc[w] = "c_wait"
  /\ LET j == jobNumber[w]
     IN /\ SemCanStep(full[j], w)
        /\ full' = [full EXCEPT ![j] = SemWait(full[j], w)]
        /\ pc' = [pc EXCEPT ![w] =
                    IF SemReturns(full[j], w) THEN "c_check" ELSE "c_wait"]
        /\ failed' = failed \cup
             (IF SemAssertFails(full[j], w) THEN {"sem>0"} ELSE {})
  /\ UNCHANGED <<qsize, q, front, job, csize, empty, compressed,
                 jobNumber, wcj, arg, k, input, next, passed, outw, seen>>
  /\ UNCHANGED archiveVars

\* end of input: cj.compressed.signal(); release; return 0
CompressEnd(w) ==
  /\ pc[w] = "c_check"
  /\ q[jobNumber[w]].method = EndOfInput
  /\ \E s \in SemSignal(compressed[jobNumber[w]]) :
       compressed' = [compressed EXCEPT ![jobNumber[w]] = s]
  /\ seen' = [seen EXCEPT ![w] = @ + 1]
  /\ pc' = [pc EXCEPT ![w] = "c_done"]
  /\ UNCHANGED <<qsize, q, front, job, csize, empty, full, jobNumber, wcj,
                 arg, k, input, next, passed, outw, failed>>
  /\ UNCHANGED archiveVars

\* assert(cj.state==CJ::FULL); cj.state=CJ::COMPRESSING; release
CompressBegin(w) ==
  /\ pc[w] = "c_check"
  /\ q[jobNumber[w]].method # EndOfInput
  /\ failed' = failed \cup
       (IF q[jobNumber[w]].state = FULL THEN {} ELSE {"state==FULL"})
  /\ q' = [q EXCEPT ![jobNumber[w]].state = COMPRESSING]
  /\ pc' = [pc EXCEPT ![w] = "c_compress"]
  /\ UNCHANGED <<qsize, front, job, csize, empty, full, compressed,
                 jobNumber, wcj, arg, k, input, next, passed, outw, seen>>
  /\ UNCHANGED archiveVars

\* compressBlock(&cj.in, &cj.out, cj.method, cj.filename, 0, cj.type),
\* outside the mutex
CompressBlock(w) ==
  /\ pc[w] = "c_compress"
  /\ q' = [q EXCEPT ![jobNumber[w]].out = compressBlock(q[jobNumber[w]])]
  /\ pc' = [pc EXCEPT ![w] = "c_finish"]
  /\ UNCHANGED <<qsize, front, job, csize, empty, full, compressed,
                 jobNumber, wcj, arg, k, input, next, passed, outw, seen,
                 failed>>
  /\ UNCHANGED archiveVars

\* cj.in.reset(); cj.state=CJ::COMPRESSED; cj.compressed.signal(); release
CompressFinish(w) ==
  /\ pc[w] = "c_finish"
  /\ q' = [q EXCEPT ![jobNumber[w]] =
             [@ EXCEPT !.in = NoData, !.state = COMPRESSED]]
  /\ \E s \in SemSignal(compressed[jobNumber[w]]) :
       compressed' = [compressed EXCEPT ![jobNumber[w]] = s]
  /\ pc' = [pc EXCEPT ![w] = "c_wait"]
  /\ UNCHANGED <<qsize, front, job, csize, empty, full, jobNumber, wcj, arg,
                 k, input, next, passed, outw, seen, failed>>
  /\ UNCHANGED archiveVars

\* --------------------------------------------------------------- writeThread
\* CJ& cj=job.q[job.front] (only this thread moves front);
\* cj.compressed.wait()
WriterWait ==
  /\ pc[Writer] = "w_top"
  /\ SemCanStep(compressed[front], Writer)
  /\ wcj' = front
  /\ compressed' = [compressed EXCEPT ![front] = SemWait(compressed[front], Writer)]
  /\ pc' = [pc EXCEPT ![Writer] =
              IF SemReturns(compressed[front], Writer) THEN "w_check" ELSE "w_top"]
  /\ failed' = failed \cup
       (IF SemAssertFails(compressed[front], Writer) THEN {"sem>0"} ELSE {})
  /\ UNCHANGED <<qsize, q, front, job, csize, empty, full, jobNumber, arg, k,
                 input, next, passed, outw, seen>>
  /\ UNCHANGED archiveVars

\* end of input at the head of the queue: release; return 0
WriterEnd ==
  /\ pc[Writer] = "w_check"
  /\ q[wcj].method = EndOfInput
  /\ pc' = [pc EXCEPT ![Writer] = "w_done"]
  /\ UNCHANGED <<qsize, q, front, job, csize, empty, full, compressed,
                 jobNumber, wcj, arg, k, input, next, passed, outw, seen,
                 failed>>
  /\ UNCHANGED archiveVars

\* assert(cj.state==CJ::COMPRESSED); cj.state=CJ::WRITING;
\* job.csize.push_back(cj.out.size()); with output to write the mutex is
\* released for the write, without output the section runs on to its end:
\* A faulty end of a write: the slot is freed but empty is not signalled.
WriterFinishSilent ==
  /\ pc[Writer] = "w_finish"
  /\ q' = [q EXCEPT ![wcj] = [@ EXCEPT !.state = EMPTY, !.out = NoData]]
  /\ front' = (front + 1) % qsize
  /\ pc' = [pc EXCEPT ![Writer] = "w_top"]
  /\ UNCHANGED <<qsize, job, csize, empty, full, compressed, jobNumber, wcj,
                 arg, k, input, next, passed, outw, seen, failed>>
  /\ UNCHANGED archiveVars

\* cj.state=CJ::EMPTY; cj.out.reset(); front=(front+1)%qsize; empty.signal()
WriterBegin ==
  /\ pc[Writer] = "w_check"
  /\ q[wcj].method # EndOfInput
  /\ failed' = failed \cup
       (IF q[wcj].state = COMPRESSED THEN {} ELSE {"state==COMPRESSED"})
  /\ csize' = Append(csize, q[wcj].out.size)
  /\ IF q[wcj].out.size > 0
       THEN /\ q' = [q EXCEPT ![wcj].state = WRITING]
            /\ pc' = [pc EXCEPT ![Writer] = "w_write"]
            /\ UNCHANGED <<front, empty>>
       ELSE /\ q' = [q EXCEPT ![wcj] = [@ EXCEPT !.state = EMPTY,
                                                 !.out = NoData]]
            /\ front' = (front + 1) % qsize
            /\ \E s \in SemSignal(empty) : empty' = s
            /\ pc' = [pc EXCEPT ![Writer] = "w_top"]
  /\ UNCHANGED <<qsize, job, full, compressed, jobNumber, wcj, arg, k, input,
                 next, passed, outw, seen>>
  /\ UNCHANGED archiveVars

\* job.out->write(cj.out.c_str(), outsize), outside the mutex
WriterWrite ==
  /\ pc[Writer] = "w_write"
  /\ outw' = Append(outw, q[wcj].out)
  /\ pc' = [pc EXCEPT ![Writer] = "w_finish"]
  /\ UNCHANGED <<qsize, q, front, job, csize, empty, full, compressed,
                 jobNumber, wcj, arg, k, input, next, passed, seen, failed>>
  /\ UNCHANGED archiveVars

\* cj.state=CJ::EMPTY; cj.out.reset(); front=(front+1)%qsize;
\* job.empty.signal(); release
WriterFinish ==
  /\ pc[Writer] = "w_finish"
  /\ q' = [q EXCEPT ![wcj] = [@ EXCEPT !.state = EMPTY, !.out = NoData]]
  /\ front' = (front + 1) % qsize
  /\ \E s \in SemSignal(empty) : empty' = s
  /\ pc' = [pc EXCEPT ![Writer] = "w_top"]
  /\ UNCHANGED <<qsize, job, csize, full, compressed, jobNumber, wcj, arg, k,
                 input, next, passed, outw, seen, failed>>
  /\ UNCHANGED archiveVars

\* ------------------------------------------------------------ specification
Producer ==
  \/ AddWriteBlock
  \/ AddWriteEnd
  \/ WriteWaitEmpty
  \/ WriteFill
  \/ AddJoin

Compressor(w) ==
  \/ CompressNumber(w)
  \/ CompressWaitFull(w)
  \/ CompressEnd(w)
  \/ CompressBegin(w)
  \/ CompressBlock(w)
  \/ CompressFinish(w)

WriterStep ==
  \/ WriterWait
  \/ WriterEnd
  \/ WriterBegin
  \/ WriterWrite
  \/ WriterFinish

Next ==
  \/ Producer
  \/ \E w \in Workers : Compressor(w)
  \/ WriterStep

Spec == Init /\ [][Next]_vars

\* Each thread that can run is eventually scheduled.
FairSpec ==
  /\ Spec
  /\ WF_vars(Producer)
  /\ \A w \in 1..MaxThreads : WF_vars(w \in Workers /\ Compressor(w))
  /\ WF_vars(WriterStep)

\* ==================================================================
\* Part 2: the archive.  Jidac::read_archive, Jidac::add and Jidac::extract
\* over an archive file, an external file tree and an extraction directory.
\* ==================================================================

\* ---------------------------------------------------------- file contents
\* A byte string is kept run-length encoded, as a sequence of <<byte, count>>
\* with count > 0 and no two neighbouring runs of the same byte, so that
\* equal strings are equal values.
Run(b, n) == IF n = 0 THEN <<>> ELSE << <<b, n>> >>

RECURSIVE ContentLen(_)
ContentLen(c) == IF c = <<>> THEN 0 ELSE c[1][2] + ContentLen(Tail(c))

\* the byte at position i (from 0)
RECURSIVE ByteAt(_, _)
ByteAt(c, i) == IF i < c[1][2] THEN c[1][1] ELSE ByteAt(Tail(c), i - c[1][2])

\* concatenation
Cat(a, b) ==
  IF a = <<>> THEN b
  ELSE IF b = <<>> THEN a
  ELSE IF a[Len(a)][1] = b[1][1]
    THEN SubSeq(a, 1, Len(a) - 1)
           \o << <<b[1][1], a[Len(a)][2] + b[1][2]>> >> \o Tail(b)
    ELSE a \o b

\* the first n bytes, and what follows them
RECURSIVE Take(_, _)
Take(c, n) ==
  IF n <= 0 \/ c = <<>> THEN <<>>
  ELSE IF n >= c[1][2] THEN <<c[1]>> \o Take(Tail(c), n - c[1][2])
  ELSE << <<c[1][1], n>> >>

RECURSIVE Drop(_, _)
Drop(c, n) ==
  IF n <= 0 \/ c = <<>> THEN c
  ELSE IF n >= c[1][2] THEN Drop(Tail(c), n - c[1][2])
  ELSE << <<c[1][1], c[1][2] - n>> >> \o Tail(c)

Slice(c, from, n) == Take(Drop(c, from), n)

Min(a, b) == IF a < b THEN a ELSE b

\* the sum of the first n numbers of a sequence
RECURSIVE SumSeq(_, _)
SumSeq(s, n) == IF n = 0 THEN 0 ELSE s[n] + SumSeq(s, n - 1)

\* SHA-1 is modelled as collision free: the hash of a string stands for the
\* string.  ZeroSha1 is the 20 zero bytes of HT(), which no string hashes to.
SHA1(c) == <<c>>
ZeroSha1 == <<>>

\* ------------------------------------------------------------ the chunker
MIN_FRAGMENT == 4096
MAX_FRAGMENT == 520192

\* x*y mod 2^16 and x*y div 2^16 for x, y < 2^16, through products < 2^31
MulLo(x, y) == ((x % 256) * y + (((x \div 256) * y) % 256) * 256) % 65536
MulHi(x, y) ==
  ((x % 256) * y + (((x \div 256) * y) % 256) * 256) \div 65536
    + ((x \div 256) * y) \div 256

\* h=(h+c+1)*m in unsigned 32 bit arithmetic; h and the result are
\* <<high 16 bits, low 16 bits>>
Roll(h, c, m) ==
  LET lo0 == h[2] + c + 1
      lo == lo0 % 65536
      hi == (h[1] + lo0 \div 65536) % 65536
      mh == m \div 65536
      ml == m % 65536
  IN <<(MulHi(lo, ml) + MulLo(hi, ml) + MulLo(lo, mh)) % 65536,
       MulLo(lo, ml)>>

\* the locals of the fragment loop before the first byte
ChunkInit == [h |-> <<0, 0>>, c1 |-> 0, o1 |-> [b \in 0..255 |-> 0],
              sz |-> 0, hits |-> 0, cut |-> FALSE]

\* A faulty pass of the fragment loop: the break condition without the
\* test sz>=MIN_FRAGMENT.
ChunkByteNoMin(st, c) ==
  LET hit == c = st.o1[st.c1]
      h == IF hit THEN Roll(st.h, c, 314159265)
           ELSE Roll(st.h, c, 271828182)
      sz == st.sz + 1
  IN [h |-> h, c1 |-> c, o1 |-> [st.o1 EXCEPT ![st.c1] = c], sz |-> sz,
      hits |-> IF hit THEN st.hits + 1 ELSE st.hits,
      cut |-> h[1] = 0 \/ sz >= MAX_FRAGMENT]

\* one pass of the fragment loop for a byte c that is not EOF; cut is the
\* break condition (h<65536 && sz>=MIN_FRAGMENT) || sz>=MAX_FRAGMENT
ChunkByte(st, c) ==
  LET hit == c = st.o1[st.c1]
      h == IF hit THEN Roll(st.h, c, 314159265)
           ELSE Roll(st.h, c, 271828182)
      sz == st.sz + 1
  IN [h |-> h, c1 |-> c, o1 |-> [st.o1 EXCEPT ![st.c1] = c], sz |-> sz,
      hits |-> IF hit THEN st.hits + 1 ELSE st.hits,
      cut |-> (h[1] = 0 /\ sz >= MIN_FRAGMENT) \/ sz >= MAX_FRAGMENT]

\* the fragment loop over the bytes lo..hi-1 of c, leaving at the first cut
RECURSIVE ChunkRun(_, _, _, _)
ChunkRun(st, c, lo, hi) ==
  IF st.cut \/ lo >= hi THEN st
  ELSE IF hi = lo + 1 THEN ChunkByte(st, ByteAt(c, lo))
  ELSE LET mid == (lo + hi) \div 2
       IN ChunkRun(ChunkRun(st, c, lo, mid), c, mid, hi)

\* Read a fragment of a file with content c from position pos: its size,
\* whether the loop left on EOF, and the count of predicted bytes.
ReadFragment(c, pos) ==
  LET st == ChunkRun(ChunkInit, c, pos,
                     Min(ContentLen(c), pos + MAX_FRAGMENT))
  IN [pos |-> pos, sz |-> st.sz, eof |-> ~st.cut, hits |-> st.hits]

\* the successive fragments of a file read from pos to EOF
RECURSIVE FragmentsFrom(_, _)
FragmentsFrom(c, pos) ==
  LET f == ReadFragment(c, pos)
  IN IF f.eof THEN <<f>> ELSE <<f>> \o FragmentsFrom(c, pos + f.sz)

\* --------------------------------------------------- the external file tree
\* Two regular files, 1 = "a.txt" and 2 = "b.bin"; the std::map DTMap holds
\* them in this order, compareFilename orders them by extension first.
Paths == {1, 2}
Extension == <<2, 1>>
compareFilename(a, b) ==
  Extension[a] < Extension[b] \/ (Extension[a] = Extension[b] /\ a < b)
\* strlen of a path name
PathLen(p) == 5

\* The contents a file may have: empty, 8000 and 15834 bytes of value 2.
\* The chunker cuts such a run after every 7917 bytes, so these files have
\* the fragment sizes <<0>>, <<7917, 83>> and <<7917, 7917, 0>>.
Contents == {Run(2, 0), Run(2, 8000), Run(2, 15834)}

\* File dates are seconds on an abstract clock; 0 is "no date".
FileDates == {1, 2}
NoFile == [date |-> 0, data |-> <<>>]
Files == [date : FileDates, data : Contents]

\* the chunking of every content, computed once
Fragments == [c \in Contents |-> FragmentsFrom(c, 0)]

\* -------------------------------------------------- vectors indexed from 0
\* std::vector v is a function on 0..size-1.
EmptyVec == [i \in {} |-> 0]
Size(v) == Cardinality(DOMAIN v)
Push(v, x) == [i \in 0..Size(v) |-> IF i < Size(v) THEN v[i] ELSE x]
Back(v) == v[Size(v) - 1]

\* ------------------------------------------------------- HT, DT and VER
\* The two marks of HT::csize keep their low 32 bits (0x7FFFFFFA and
\* 0x7FFFFFFE), the widest the model checker's integers hold; as in the
\* program both are positive, distinct and beyond every archive offset.
HT_BAD == 2147483642
EXTRACTED == 2147483646

\* HT(), DTV(), DT() and VER()
HT0 == [sha1 |-> ZeroSha1, usize |-> 0 - 1, csize |-> HT_BAD]
DTV0 == [date |-> 0, size |-> 0, attr |-> 0, ptr |-> <<>>, version |-> 0]
DT0 == [edate |-> 0, esize |-> 0, eattr |-> 0, eptr |-> <<>>, dtv |-> <<>>,
        written |-> 0 - 1]
VER0 == [date |-> 0, usize |-> 0, offset |-> 0, updates |-> 0, deletes |-> 0,
         firstFragment |-> 0]

\* std::map DTMap: dt[p] creates the entry DT() when p is new
EmptyMap == [p \in {} |-> DT0]
DtAt(dt, p) == IF p \in DOMAIN dt THEN dt[p] ELSE DT0
DtPut(dt, p, e) ==
  [x \in DOMAIN dt \cup {p} |-> IF x = p THEN e ELSE dt[x]]

\* the paths of a set in the iteration order of the map
RECURSIVE InOrder(_)
InOrder(S) ==
  IF S = {} THEN <<>>
  ELSE LET p == CHOOSE x \in S : \A y \in S : x <= y
       IN <<p>> \o InOrder(S \ {p})

\* Jidac after doCommand set the defaults: ht.resize(1), ver.resize(1).
\* version=9999999999999 there, a version number no archive reaches; it is
\* scaled to the integer width of the model checker.
DefaultVersion == 999999999
JidacInit == [ht |-> Push(EmptyVec, HT0), dt |-> EmptyMap,
              ver |-> Push(EmptyVec, VER0)]

\* ------------------------------------------------------- the archive file
\* The archive is the sequence of its blocks.  A block has the type letter,
\* the date and the number of its name jDC<date><type><num>, its
\* uncompressed payload (body), its length in the file and, once written,
\* its offset there (at).  The codec is
\* outside the model: a block takes the 28 bytes of its name and the bytes
\* of its payload.
NameLen == 28

\* payload of a c block: ltob(cdata), 8 bytes.  A slip of this code, for
\* testing the claims: the header is compressed, so that its size depends
\* on the payload.
CBlockPacked(date, cdata, htsize) ==
  [type |-> "c", date |-> date, num |-> htsize, body |-> cdata,
   len |-> NameLen + (IF cdata < 0 THEN 2 ELSE 8), at |-> 0, tag |-> TRUE]

CBlock(date, cdata, htsize) ==
  [type |-> "c", date |-> date, num |-> htsize, body |-> cdata,
   len |-> NameLen + 8, at |-> 0, tag |-> TRUE]

\* payload of a d block: the fragments' bytes, then (unless -fragile) the
\* list of fragment sizes, the first fragment ID and the fragment count.
\* sha1 is the checksum that ends the segment (unless -fragile), here that
\* of the fragments' bytes.
DBlock(date, first, data, sizes, count) ==
  [type |-> "d", date |-> date, num |-> first,
   body |-> [data |-> data, sizes |-> sizes, first |-> first,
             count |-> count, sha1 |-> SHA1(data)],
   len |-> NameLen + ContentLen(data) + 4 * Len(sizes) + 8, at |-> 0,
   tag |-> TRUE]

\* a segment that ends without a checksum
Unchecked == <<>>

\* a d block written with -fragile: no size list, 0 for the first fragment
\* ID and for the count, no checksum
DBlockFragile(date, first, data) ==
  [type |-> "d", date |-> date, num |-> first,
   body |-> [data |-> data, sizes |-> <<>>, first |-> 0, count |-> 0,
             sha1 |-> Unchecked],
   len |-> NameLen + ContentLen(data) + 8, at |-> 0, tag |-> FALSE]

\* "bad checksum": the checksum that ends the segment of a d block is not
\* that of what the block decompresses to
ChecksumError(b) ==
  b.body.sha1 # Unchecked /\ b.body.sha1 # SHA1(b.body.data)

\* os.size() for a d block
OsSize(b) == ContentLen(b.body.data) + 4 * Len(b.body.sizes) + 8

\* payload of an h block: bsize[4] (sha1[20] usize[4])...
HBlock(date, block_start, is) ==
  [type |-> "h", date |-> date, num |-> block_start, body |-> is,
   len |-> NameLen + 4 + 24 * (Len(is) - 1), at |-> 0, tag |-> TRUE]

\* the bytes of one index record: date[8] filename 0, then for an update
\* na[4] (no attribute bytes) ni[4] ptr[ni][4]
RecordLen(rec) ==
  8 + PathLen(rec.path) + 1
    + (IF rec.date # 0 THEN 4 + 4 + 4 * Len(rec.ptr) ELSE 0)

RECURSIVE IsSize(_)
IsSize(is) == IF is = <<>> THEN 0 ELSE RecordLen(is[1]) + IsSize(Tail(is))

\* payload of an i block: a list of index records
IBlock(date, dtcount, is) ==
  [type |-> "i", date |-> date, num |-> dtcount, body |-> is,
   len |-> NameLen + IsSize(is), at |-> 0, tag |-> TRUE]

\* if (!fragile) co.writeTag(): with -fragile the block is written without
\* the 13 bytes that mark where a block starts
writeTag(b, fragile) == [b EXCEPT !.tag = ~fragile]

\* the size of the archive file, and the file after block b is appended
ArchiveSize(a) == IF a = <<>> THEN 0 ELSE a[Len(a)].at + a[Len(a)].len
Write(a, b) == Append(a, [b EXCEPT !.at = ArchiveSize(a)])

\* A scan from pos finds the block b if b starts at or after pos and starts
\* with the tag, or if b starts at pos.
Found(b, pos) == b.at >= pos /\ (b.tag \/ b.at = pos)

\* Decompresser::findBlock from position pos: the first block a scan from
\* pos finds, 0 if there is none
RECURSIVE findBlockFrom(_, _, _)
findBlockFrom(a, pos, n) ==
  IF n > Len(a) THEN 0
  ELSE IF Found(a[n], pos) THEN n
  ELSE findBlockFrom(a, pos, n + 1)

findBlock(a, pos) == findBlockFrom(a, pos, 1)

\* OutputFile::truncate(pos): the blocks that end at or before pos remain.
\* A slip of this code, for testing the claims: the block that ends at pos
\* goes too.
TruncateBefore(a, pos) ==
  SubSeq(a, 1, Cardinality({n \in 1..Len(a) : a[n].at + a[n].len < pos}))

Truncate(a, pos) ==
  SubSeq(a, 1, Cardinality({n \in 1..Len(a) : a[n].at + a[n].len <= pos}))

\* ---------------------------------------------------- Jidac::read_archive
\* while (v.size()<n) v.push_back(HT())
Extend(ht, n) ==
  IF Size(ht) >= n THEN ht
  ELSE [i \in 0..(n - 1) |-> IF i < Size(ht) THEN ht[i] ELSE HT0]

\* A date in a block name counts when 19000000000000 <= fdate <
\* 30000000000000; on the abstract clock every date from 1 on does.
ValidDate(fdate) == fdate >= 1

\* The state of the scan: ht, dt and ver as built so far, block_offset,
\* data_offset, pass, the error count, whether the function has returned
\* from inside the loop (ret), and whether the block at hand threw (thrown).
\* errors is the caller's counter, NoCounter for a caller that passes none;
\* logged counts the reports of malformed blocks on stderr; undefined tells
\* that the scan did something the language leaves undefined; passes counts
\* the scans from offset 0; scanned is ht as the NORMAL pass left it, for a
\* reader that went on to the RECOVER pass.
NoCounter == 0 - 1

ReaderInit ==
  [ht |-> JidacInit.ht, dt |-> JidacInit.dt, ver |-> JidacInit.ver,
   block_offset |-> 0, data_offset |-> 0, pass |-> "NORMAL",
   errors |-> NoCounter, logged |-> 0, undefined |-> FALSE, passes |-> 1,
   scanned |-> JidacInit.ht, ret |-> FALSE, thrown |-> FALSE]

\* a malformed block is reported on stderr, then "if (errors) ++*errors"
Count(r) ==
  [r EXCEPT !.logged = @ + 1,
            !.errors = IF @ = NoCounter THEN @ ELSE @ + 1]

\* "Bad JIDAC header size" is reported, then "if (*errors) ++*errors":
\* the counter is read where it was to be tested for being there.  A
\* counter that stands at 0 stays at 0; without a counter a null pointer is
\* read, which is undefined.
CountHeader(r) ==
  [r EXCEPT !.logged = @ + 1,
            !.errors = IF @ = NoCounter \/ @ = 0 THEN @ ELSE @ + 1,
            !.undefined = @ \/ r.errors = NoCounter]

\* Transaction header (type c) at block n, which ends at offset end.
\* Two slips of this code, for testing the claims: the payload is never
\* taken as negative, and the version test is late by one.
ReadHeaderUnsigned(a, n, end, version, r) ==
  IF Size(r.ver) > version THEN [r EXCEPT !.ret = TRUE]
  ELSE [r EXCEPT
          !.data_offset = end,
          !.ver = Push(@, [VER0 EXCEPT !.firstFragment = Size(r.ht),
                                       !.offset = r.block_offset,
                                       !.date = a[n].date]),
          !.block_offset = IF a[n].body > 0 THEN end + a[n].body ELSE end]

ReadHeaderLate(a, n, end, version, r) ==
  LET isbreak0 == Size(r.ver) > version + 1
      jmp == IF ~isbreak0 THEN a[n].body ELSE 0
      isbreak == isbreak0 \/ jmp < 0
  IN IF isbreak THEN [r EXCEPT !.ret = TRUE]
     ELSE [r EXCEPT
             !.data_offset = end,
             !.ver = Push(@, [VER0 EXCEPT !.firstFragment = Size(r.ht),
                                          !.offset = r.block_offset,
                                          !.date = a[n].date]),
             !.block_offset = IF jmp > 0 THEN end + jmp ELSE end]

ReadHeader(a, n, end, version, r) ==
  LET isbreak0 == Size(r.ver) > version
      size8 == a[n].len - NameLen = 8                 \* os.size()==8
      jmp == IF ~isbreak0 /\ size8 THEN a[n].body ELSE 0
      isbreak == isbreak0 \/ jmp < 0 \/ ~size8
  IN IF isbreak
       THEN [(IF size8 THEN r ELSE CountHeader(r)) EXCEPT !.ret = TRUE]
     ELSE [r EXCEPT
             !.data_offset = end,
             !.ver = Push(@, [VER0 EXCEPT !.firstFragment = Size(r.ht),
                                          !.offset = r.block_offset,
                                          !.date = a[n].date]),
             !.block_offset = IF jmp > 0 THEN end + jmp ELSE end]

\* the loop over the entries of an h block, from entry i (counted from 0).
\* A slip of this code, for testing the claims: the place of a fragment in
\* its block is counted from 1.
RECURSIVE ReadTableEntriesFromOne(_, _, _, _, _)
ReadTableEntriesFromOne(ht, num, is, i, data_offset) ==
  IF i >= Len(is) - 1 THEN [ht |-> ht, thrown |-> FALSE]
  ELSE LET ht1 == Extend(ht, num + i + 1)
           ht2 == [ht1 EXCEPT ![num + i].sha1 = is[i + 2].sha1]
       IN IF ht1[num + i].csize # HT_BAD
            THEN [ht |-> ht2, thrown |-> TRUE]
            ELSE ReadTableEntriesFromOne(
                   [ht2 EXCEPT ![num + i].usize = is[i + 2].usize,
                               ![num + i].csize =
                                  IF i # 0 THEN 0 - (i + 1) ELSE data_offset],
                   num, is, i + 1, data_offset)

RECURSIVE ReadTableEntries(_, _, _, _, _)
ReadTableEntries(ht, num, is, i, data_offset) ==
  IF i >= Len(is) - 1 THEN [ht |-> ht, thrown |-> FALSE]
  ELSE LET ht1 == Extend(ht, num + i + 1)
           ht2 == [ht1 EXCEPT ![num + i].sha1 = is[i + 2].sha1]
       IN IF ht1[num + i].csize # HT_BAD
            THEN [ht |-> ht2, thrown |-> TRUE]   \* duplicate fragment ID
            ELSE ReadTableEntries(
                   [ht2 EXCEPT ![num + i].usize = is[i + 2].usize,
                               ![num + i].csize =
                                  IF i # 0 THEN 0 - i ELSE data_offset],
                   num, is, i + 1, data_offset)

\* Fragment table (type h) at block n; t is what the loop over its entries
\* left
TableRead(a, n, end, r, t) ==
  [r EXCEPT
     !.pass = IF Size(r.ht) # a[n].num THEN "ERR" ELSE @,
     !.ht = t.ht,
     !.thrown = t.thrown,
     !.data_offset = IF t.thrown THEN @ ELSE @ + a[n].body[1],
     !.block_offset = end]

ReadTable(a, n, end, r) ==
  TableRead(a, n, end, r,
            ReadTableEntries(r.ht, a[n].num, a[n].body, 0, r.data_offset))

\* the loop over the fragment pointers of one index record, from pointer i
\* (counted from 1); s holds ht, pass, the size summed and the pointers read
RECURSIVE ReadPointers(_, _, _)
ReadPointers(s, ptr, i) ==
  IF i > Len(ptr) THEN s
  ELSE LET s1 == [s EXCEPT !.ptr[i] = ptr[i]]
       IN IF ptr[i] < 1 \/ ptr[i] >= Size(s.ht) + 16777216
            THEN [s1 EXCEPT !.thrown = TRUE]     \* bad fragment ID
            ELSE LET ht1 == Extend(s.ht, ptr[i] + 1)
                 IN ReadPointers(
                      [s1 EXCEPT !.ht = ht1,
                                 !.pass = IF ptr[i] >= Size(s.ht)
                                            THEN "ERR" ELSE @,
                                 !.size = @ + ht1[ptr[i]].usize],
                      ptr, i + 1)

\* One index record rec is read into dt and ver; s is what the loop over
\* its pointers left.  A slip of this code, for testing the claims: a
\* deletion takes the last version away.
RecordReadRemoves(r, rec, s) ==
  LET dtv == [DTV0 EXCEPT !.version = Size(r.ver) - 1,
                          !.date = rec.date,
                          !.attr = IF rec.date # 0 THEN rec.attr ELSE 0,
                          !.ptr = s.ptr,
                          !.size = s.size]
      cur == Size(r.ver) - 1
      old == DtAt(r.dt, rec.path).dtv
  IN [r EXCEPT
        !.ht = s.ht,
        !.pass = s.pass,
        !.thrown = s.thrown,
        !.dt = DtPut(r.dt, rec.path,
                     [DtAt(r.dt, rec.path) EXCEPT
                        !.dtv = IF rec.date = 0 /\ old # <<>>
                                  THEN SubSeq(old, 1, Len(old) - 1)
                                  ELSE Append(@, dtv)]),
        !.ver = [@ EXCEPT
                   ![cur].updates = IF rec.date # 0 THEN @ + 1 ELSE @,
                   ![cur].deletes = IF rec.date = 0 THEN @ + 1 ELSE @,
                   ![cur].usize = @ + s.size]]

RecordRead(r, rec, s) ==
  LET dtv == [DTV0 EXCEPT !.version = Size(r.ver) - 1,
                          !.date = rec.date,
                          !.attr = IF rec.date # 0 THEN rec.attr ELSE 0,
                          !.ptr = s.ptr,
                          !.size = s.size]
      cur == Size(r.ver) - 1
  IN [r EXCEPT
        !.ht = s.ht,
        !.pass = s.pass,
        !.thrown = s.thrown,
        !.dt = DtPut(r.dt, rec.path,
                     [DtAt(r.dt, rec.path) EXCEPT !.dtv = Append(@, dtv)]),
        !.ver = [@ EXCEPT
                   ![cur].updates = IF rec.date # 0 THEN @ + 1 ELSE @,
                   ![cur].deletes = IF rec.date = 0 THEN @ + 1 ELSE @,
                   ![cur].usize = @ + s.size]]

\* the loop over the records of an i block, from record i (counted from 1)
RECURSIVE ReadRecords(_, _, _)
ReadRecords(r, is, i) ==
  IF i > Len(is) \/ r.thrown THEN r
  ELSE ReadRecords(
         RecordRead(r, is[i],
           IF is[i].date # 0
             THEN ReadPointers([ht |-> r.ht, pass |-> r.pass, size |-> 0,
                                ptr |-> [j \in 1..Len(is[i].ptr) |-> 0],
                                thrown |-> FALSE], is[i].ptr, 1)
             ELSE [ht |-> r.ht, pass |-> r.pass, size |-> 0, ptr |-> <<>>,
                   thrown |-> FALSE]),
         is, i + 1)

\* Index (type i) at block n
ReadIndex(a, n, end, r) ==
  [ReadRecords(r, a[n].body, 1) EXCEPT !.block_offset = end]

\* the try block of the scan loop for the block n that findBlock found
ReadSegments(a, n, end, version, r) ==
  IF a[n].type = "c" /\ ValidDate(a[n].date)
    THEN ReadHeader(a, n, end, version, r)
  ELSE IF a[n].type = "h" /\ a[n].num > 0
    THEN ReadTable(a, n, end, r)
  ELSE IF a[n].type = "i"
    THEN ReadIndex(a, n, end, r)
  ELSE [Count(r) EXCEPT !.block_offset = end]   \* Bad JIDAC block ignored

\* catch: a block that threw is skipped and counted, the scan goes on
\* behind it
Caught(r, end) ==
  IF r.thrown
    THEN [Count(r) EXCEPT !.thrown = FALSE, !.block_offset = end]
    ELSE r

ReadBlock(a, n, version, r) ==
  Caught(ReadSegments(a, n, a[n].at + a[n].len, version, r),
         a[n].at + a[n].len)

\* the sum of ht[from..to-1].usize
RECURSIVE SumSizes(_, _, _)
SumSizes(ht, from, to) ==
  IF from >= to THEN 0 ELSE ht[from].usize + SumSizes(ht, from + 1, to)

\* btoi of the 4 bytes of c at off (bytes below 128)
DataWord(c, off) ==
  ByteAt(c, off) + 256 * ByteAt(c, off + 1) + 65536 * ByteAt(c, off + 2)
    + 16777216 * ByteAt(c, off + 3)

\* Of the f 4-byte words that lie before the last 8 bytes of what block b
\* decompresses to, the word i (from 0): an entry of the size list, or
\* bytes of the fragments when the list is shorter than f.
TrailerSize(b, f, i) ==
  IF Len(b.body.sizes) - f + i + 1 >= 1
    THEN b.body.sizes[Len(b.body.sizes) - f + i + 1]
    ELSE DataWord(b.body.data,
                  ContentLen(b.body.data)
                    + 4 * (Len(b.body.sizes) - f + i))

\* "Recover fragment sizes and hashes from data block": these f words go to
\* ht[n..n+f-1] as sizes, with the locators
RECURSIVE AdoptSizes(_, _, _, _, _, _)
AdoptSizes(ht, b, n, f, i, block_offset) ==
  IF i >= f THEN ht
  ELSE AdoptSizes(
         [ht EXCEPT ![n + i].usize = TrailerSize(b, f, i),
                    ![n + i].csize = IF i # 0 THEN 0 - i ELSE block_offset],
         b, n, f, i + 1, block_offset)

\* "Compute hashes" of the fragments n..n+f-1 from the bytes data; off is
\* the place of fragment n+i
RECURSIVE AdoptHashes(_, _, _, _, _, _)
AdoptHashes(ht, data, n, f, i, off) ==
  IF i >= f THEN ht
  ELSE AdoptHashes(
         [ht EXCEPT ![n + i].sha1 = SHA1(Slice(data, off, ht[n + i].usize))],
         data, n, f, i + 1, off + ht[n + i].usize)

\* A slip of this code, for testing the claims: the trailer is looked at
\* only if it names the block's number, and nothing is adopted unless the
\* sizes sum to the decompressed length minus the trailer.
RecoverDataStrict(b, r) ==
  LET n == b.body.first
      f == b.body.count
      adopt == /\ r.ht[b.num].csize = HT_BAD
               /\ n = b.num
               /\ f # 0
               /\ f * 4 + 8 <= OsSize(b)
      ht1 == IF adopt
               THEN AdoptSizes(Extend(r.ht, n + f + 1), b, n, f, 0,
                               r.block_offset)
               ELSE r.ht
      ht2 == IF adopt /\ SumSizes(ht1, n, n + f) + f * 4 + 8 = OsSize(b)
               THEN AdoptHashes(ht1, b.body.data, n, f, 0, 0)
               ELSE r.ht
  IN [r EXCEPT !.ht = [ht2 EXCEPT ![b.num].csize = r.block_offset]]

\* the d block b in the RECOVER pass, num>0 && num<ht.size(): the trailer
\* is read if the block was decompressed (ht[num].csize==HT_BAD), then
\* "Correct bad offsets"
RecoverData(b, r) ==
  LET n == IF b.body.first = 0 THEN b.num ELSE b.body.first
      f == b.body.count
      adopt == /\ r.ht[b.num].csize = HT_BAD
               /\ n = b.num
               /\ f # 0
               /\ f * 4 + 8 <= OsSize(b)
      ht1 == IF adopt
               THEN AdoptSizes(Extend(r.ht, n + f + 1), b, n, f, 0,
                               r.block_offset)
               ELSE r.ht
      ht2 == IF adopt /\ SumSizes(ht1, n, n + f) + f * 4 + 8 = OsSize(b)
               THEN AdoptHashes(ht1, b.body.data, n, f, 0, 0)
               ELSE ht1
  IN [r EXCEPT !.ht = [ht2 EXCEPT ![b.num].csize = r.block_offset]]

\* the try block of the scan loop in the RECOVER pass for the block n: only
\* d blocks with missing HT data are decompressed (their checksum may
\* throw), c, h and i blocks are passed over
RecoverBlock(a, n, r) ==
  LET isdata == a[n].type = "d" /\ a[n].num > 0 /\ a[n].num < Size(r.ht)
      r1 == IF isdata /\ r.ht[a[n].num].csize = HT_BAD /\ ChecksumError(a[n])
              THEN Count(r)
            ELSE IF isdata THEN RecoverData(a[n], r)
            ELSE r
  IN [r1 EXCEPT !.block_offset = a[n].at + a[n].len]

RECURSIVE RecoverBlocks(_, _)
RecoverBlocks(a, r) ==
  IF findBlock(a, r.block_offset) = 0 THEN r
  ELSE RecoverBlocks(a, RecoverBlock(a, findBlock(a, r.block_offset), r))

\* "Recompute file sizes in recover mode"
RECURSIVE KnownSizes(_, _, _)
KnownSizes(ht, ptr, j) ==
  IF j > Len(ptr) THEN 0
  ELSE (IF ptr[j] > 0 /\ ptr[j] < Size(ht) THEN ht[ptr[j]].usize ELSE 0)
         + KnownSizes(ht, ptr, j + 1)

RecomputeSizes(r) ==
  [r EXCEPT !.dt = [p \in DOMAIN r.dt |->
                      [r.dt[p] EXCEPT !.dtv =
                         [i \in 1..Len(r.dt[p].dtv) |->
                            [r.dt[p].dtv[i] EXCEPT !.size =
                               KnownSizes(r.ht, r.dt[p].dtv[i].ptr, 1)]]]]]

\* No block is left and pass==ERR: "scan a second time in RECOVER mode to
\* recover the redundant fragment data from the d blocks"
Recover(a, r) ==
  IF findBlock(a, 0) = 0 THEN r
  ELSE RecomputeSizes(
         RecoverBlocks(a, [r EXCEPT !.pass = "RECOVER", !.block_offset = 0,
                                    !.passes = @ + 1, !.scanned = r.ht]))

\* the scan loop, with the block n that findBlock found (0: none)
RECURSIVE ReadBlocks(_, _, _)
ReadFound(a, version, r, n) ==
  IF n = 0 THEN (IF r.pass = "ERR" THEN Recover(a, r) ELSE r)
  ELSE ReadBlocks(a, version, ReadBlock(a, n, version, r))

ReadBlocks(a, version, r) ==
  IF r.ret THEN r ELSE ReadFound(a, version, r, findBlock(a, r.block_offset))

\* read_archive of archive a under -until version: ht, dt, ver and the
\* returned offset (block_offset).  When the NORMAL pass comes to the end
\* of the archive with pass=ERR (set by an h block or an index record) the
\* RECOVER pass follows.
read_archive(a, version) == ReadBlocks(a, version, ReaderInit)

\* read_archive(&errors): "if (errors) *errors=0"
read_archive_errors(a, version) ==
  ReadBlocks(a, version, [ReaderInit EXCEPT !.errors = 0])

\* what a command keeps of read_archive
Jidac(r) == [ht |-> r.ht, dt |-> r.dt, ver |-> r.ver]

\* -------------------------------------------- Jidac::read_args and addfile
addfile(d, f) ==
  [d EXCEPT !.edate = f.date, !.esize = ContentLen(f.data), !.eattr = 0,
            !.written = 0]

\* the latest version of an entry is a live file
Live(d) == Len(d.dtv) # 0 /\ d.dtv[Len(d.dtv)].date # 0

\* Mark the archived paths that match files (all when files is empty) and
\* whose latest version is live; with scan, add each external file named.
read_args(dt, files, scan, tr) ==
  LET found == IF scan THEN {p \in files : tr[p] # NoFile} ELSE {}
  IN [p \in DOMAIN dt \cup found |->
        LET d0 == DtAt(dt, p)
            matched == files = {} \/ p \in files
            d1 == IF p \in DOMAIN dt /\ matched /\ Live(d0)
                    THEN [d0 EXCEPT !.written = 0] ELSE d0
        IN IF p \in found THEN addfile(d1, tr[p]) ELSE d1]

\* ------------------------------------------------------------- Jidac::add
\* method "1"
blocksize == 16777216 - 4096

\* the test that puts a file on the list vf of files to add
ToAddAlways(d, force) == d.edate # 0

ToAdd(d, force) ==
  d.edate # 0
    /\ (force \/ Len(d.dtv) = 0 \/ d.edate # d.dtv[Len(d.dtv)].date)

\* std::sort(vf.begin(), vf.end(), compareFilename)
RECURSIVE SortFiles(_)
SortFiles(S) ==
  IF S = {} THEN <<>>
  ELSE LET p == CHOOSE x \in S : \A y \in S \ {x} : compareFilename(x, y)
       IN <<p>> \o SortFiles(S \ {p})

\* HTIndex::find after HTIndex::update: the lowest ID of known size with
\* this hash, 0 if there is none
FindNever(ht, sh) == 0

Find(ht, sh) ==
  LET S == {j \in DOMAIN ht : ht[j].usize >= 0 /\ ht[j].sha1 = sh}
  IN IF S = {} THEN 0 ELSE CHOOSE j \in S : \A j2 \in S : j <= j2

\* ReadFragment(c, pos), from the table computed once
FragmentAt(c, pos) ==
  LET s == Fragments[c]
  IN s[CHOOSE i \in 1..Len(s) : s[i].pos = pos]

\* while (eptr.size()<=fj) eptr.push_back(0); eptr[fj]=j;
SetPointer(eptr, fj, j) ==
  [i \in 1..(IF Len(eptr) > fj + 1 THEN Len(eptr) ELSE fj + 1) |->
     IF i = fj + 1 THEN j ELSE IF i <= Len(eptr) THEN eptr[i] ELSE 0]

\* The locals of the loop "Compress until end of last file": fi, fj, the
\* read position of the open file, sb, frags, redundancy, with ht and dt;
\* blocks lists the d blocks passed to job.write so far.  Of the four
\* redundancy tests only the first (the chunker's hits) is modelled: the
\* estimate matters to the flush tests only for sb.size()>blocksize/8.
LoopInit(ht, dt) ==
  [fi |-> 0, fj |-> 0, pos |-> 0, isopen |-> FALSE, sb |-> <<>>,
   frags |-> 0, redundancy |-> 0, ht |-> ht, dt |-> dt, blocks |-> <<>>,
   jobs |-> <<>>, fragile |-> FALSE]

\* the test "Compress a block if ..."
FlushNow(L, vf) ==
  LET sbsize == ContentLen(L.sb)
  IN \/ L.fi = Len(vf)
     \/ sbsize > blocksize - MAX_FRAGMENT - 80 - L.frags * 4
     \/ /\ L.fj = 0
        /\ sbsize > (blocksize * 3) \div 4
        /\ sbsize + L.dt[vf[L.fi + 1]].esize
             > blocksize - MAX_FRAGMENT - 2048
     \/ L.fj = 0 /\ sbsize > blocksize \div 8
          /\ L.redundancy < sbsize \div 32
     \/ L.fj = 0 /\ sbsize > blocksize \div 4
          /\ L.redundancy < sbsize \div 16
     \/ L.fj = 0 /\ sbsize > blocksize \div 2
          /\ L.redundancy < sbsize \div 8

\* job.write(sb, name, method, type) for the block b that holds frags
\* fragments: what add passes to the pipeline.  The files of the model have
\* no fragment that counts as text or as x86 code, so the type is
\* redundancy/(sb.size()/256+1)*4, with the redundancy the loop keeps.
WriteArgs(b, redundancy) ==
  [data |-> [size |-> OsSize(b), data |-> b.body],
   filename |-> <<b.date, b.type, b.num>>,
   method |-> "1",
   type |-> (redundancy \div (OsSize(b) \div 256 + 1)) * 4]

\* "Pad sb with redundant fragment size list and compress"
Flush(L, date) ==
  IF L.frags = 0 THEN L
  ELSE LET first == Size(L.ht) - L.frags
           sizes == [i \in 1..L.frags |-> L.ht[first + i - 1].usize]
           b == IF L.fragile THEN DBlockFragile(date, first, L.sb)
                ELSE DBlock(date, first, L.sb, sizes, L.frags)
       IN [L EXCEPT
             !.blocks = Append(@, b),
             !.jobs = Append(@, WriteArgs(b, L.redundancy)),
             !.ht[first].csize = 0 - 1,
             !.sb = <<>>, !.frags = 0, !.redundancy = 0]

\* "Look for matching fragment": the fragment f of file p, with bytes sb1
\* and hash sh, was found in ht as j (0: not found).  Point the file to it
\* and close the file at EOF.
Matched(L, p, f, sb1, sh, j) ==
  [L EXCEPT
     !.ht = IF j = 0
              THEN Push(@, [sha1 |-> sh, usize |-> f.sz, csize |-> 0])
              ELSE @,
     !.frags = IF j = 0 THEN @ + 1 ELSE @,
     !.sb = IF j = 0 THEN Cat(@, sb1) ELSE @,
     !.redundancy = IF j = 0 THEN @ + Min(f.hits, f.sz) ELSE @,
     !.dt[p].eptr = SetPointer(@, L.fj, IF j = 0 THEN Size(L.ht) ELSE j),
     !.fi = IF f.eof THEN @ + 1 ELSE @,
     !.fj = IF f.eof THEN 0 ELSE @ + 1,
     !.pos = IF f.eof THEN 0 ELSE @ + f.sz,
     !.isopen = ~f.eof]

\* "Read a fragment" of file p with content c
Fragment(L, p, c, f) ==
  Matched(L, p, f, Slice(c, L.pos, f.sz), SHA1(Slice(c, L.pos, f.sz)),
          Find(L.ht, SHA1(Slice(c, L.pos, f.sz))))

\* Open the next file if none is open (a file that cannot be opened is
\* skipped), then read a fragment.
AddFragment(L, vf, tr) ==
  IF ~L.isopen /\ tr[vf[L.fi + 1]] = NoFile
    THEN [L EXCEPT !.dt[vf[L.fi + 1]].edate = 0, !.fi = @ + 1]
    ELSE Fragment(L, vf[L.fi + 1], tr[vf[L.fi + 1]].data,
                  FragmentAt(tr[vf[L.fi + 1]].data, L.pos))

\* while (fi<vf.size() || frags>0)
RECURSIVE AddLoop(_, _, _, _)
AddLoop(L, vf, date, tr) ==
  IF ~(L.fi < Len(vf) \/ L.frags > 0) THEN L
  ELSE IF FlushNow(L, vf) THEN AddLoop(Flush(L, date), vf, date, tr)
  ELSE AddLoop(AddFragment(L, vf, tr), vf, date, tr)

\* "Fill in compressed sizes in ht": i over the IDs from htsize, j over
\* job.csize (counted from 1)
RECURSIVE FillSizes(_, _, _, _)
FillSizes(ht, i, sizes, j) ==
  IF ~(i < Size(ht) /\ j <= Len(sizes)) THEN ht
  ELSE IF ht[i].csize = 0 - 1
    THEN FillSizes([ht EXCEPT ![i].csize = sizes[j]], i + 1, sizes, j + 1)
    ELSE FillSizes(ht, i + 1, sizes, j)

\* A slip of this code, for testing the claims: the tables of all d blocks
\* of a transaction go into one h block.
RECURSIVE TableBlocksJoined(_, _, _, _, _, _)
TableBlocksJoined(ht, date, i, is, block_start, out) ==
  LET write == i = Size(ht) /\ is # <<>>
      out1 == IF write THEN Append(out, HBlock(date, block_start, is))
              ELSE out
      is1 == IF write THEN <<>> ELSE is
  IN IF i >= Size(ht) THEN out1
     ELSE TableBlocksJoined(ht, date, i + 1,
            (IF ht[i].csize # 0 THEN Append(is1, ht[i].csize) ELSE is1)
               \o <<[sha1 |-> ht[i].sha1, usize |-> ht[i].usize]>>,
            IF ht[i].csize # 0 /\ block_start = 0 THEN i ELSE block_start,
            out1)

\* "Append compressed fragment tables to archive": the h blocks, from ID i
RECURSIVE TableBlocks(_, _, _, _, _, _)
TableBlocks(ht, date, i, is, block_start, out) ==
  LET write == (i = Size(ht) \/ ht[i].csize > 0) /\ is # <<>>
      out1 == IF write THEN Append(out, HBlock(date, block_start, is))
              ELSE out
      is1 == IF write THEN <<>> ELSE is
  IN IF i >= Size(ht) THEN out1
     ELSE TableBlocks(ht, date, i + 1,
            (IF ht[i].csize # 0 THEN Append(is1, ht[i].csize) ELSE is1)
               \o <<[sha1 |-> ht[i].sha1, usize |-> ht[i].usize]>>,
            IF ht[i].csize # 0 THEN i ELSE block_start,
            out1)

\* "Remove file if external does not exist and is currently in archive"
ToRemove(d) == d.written = 0 /\ d.edate = 0 /\ Live(d)

\* "Update file if compressed and anything differs"
ToUpdate(d, force) ==
  ToAdd(d, force)
    /\ (\/ Len(d.dtv) = 0
        \/ d.edate # d.dtv[Len(d.dtv)].date
        \/ d.eattr # d.dtv[Len(d.dtv)].attr
        \/ d.eptr # d.dtv[Len(d.dtv)].ptr)

\* "Append compressed index to archive": the i blocks, ps the paths of dt
\* still to visit
RECURSIVE IndexBlocks(_, _, _, _, _, _, _)
IndexBlocks(dt, force, date, ps, is, dtcount, out) ==
  IF ps = <<>> THEN out
  ELSE
    LET p == Head(ps)
        d == dt[p]
        is1 == is
          \o (IF ToRemove(d)
                THEN <<[date |-> 0, path |-> p, attr |-> 0, ptr |-> <<>>]>>
                ELSE <<>>)
          \o (IF ToUpdate(d, force)
                THEN <<[date |-> d.edate, path |-> p, attr |-> d.eattr,
                        ptr |-> d.eptr]>>
                ELSE <<>>)
        write == IsSize(is1) > 16000 \/ (IsSize(is1) > 0 /\ Tail(ps) = <<>>)
    IN IF write
         THEN IndexBlocks(dt, force, date, Tail(ps), <<>>, dtcount + 1,
                          Append(out, IBlock(date, dtcount + 1, is1)))
         ELSE IndexBlocks(dt, force, date, Tail(ps), is1, dtcount, out)

\* ------------------------------------------------------ archive: actions
\* A command runs in a process of its own: what it read from the archive
\* (jd) is gone when it ends or dies.
NoJidac == <<>>

\* the external tree before any file exists
NoTree == [p \in Paths |-> NoFile]

\* the clock values time(NULL) may show to a command
Clock == {2}

ArchiveInit ==
  /\ arc = <<>>
  /\ tree \in [Paths -> {NoFile} \cup {f \in Files : f.date = 1}]
  /\ cmd = "idle"
  /\ jd = NoJidac
  /\ pending = <<>>
  /\ hist = Push(EmptyVec, [arc |-> <<>>, jidac |-> JidacInit])
  /\ ncmd = 0
  /\ edited = FALSE
  /\ last = "none"
  /\ ejob = NoJidac
  /\ ethread = <<>>
  /\ outdir = NoTree
  /\ eret = 0 - 1
  /\ PipelineAtRest
  /\ CliAtRest
  /\ LoopAtRest

\* Between two commands the user writes, touches or removes one file.
Edit(p, f) ==
  /\ cmd = "idle"
  /\ ~edited
  /\ ncmd < MaxCommands
  /\ f # tree[p]
  /\ tree' = [tree EXCEPT ![p] = f]
  /\ edited' = TRUE
  /\ UNCHANGED <<arc, cmd, jd, pending, hist, ncmd, last>>
  /\ UNCHANGED <<restVars, extractVars>>

\* The loop is through (L): the archive is cut at header_pos and gets the
\* c block with payload -1; the d blocks the loop passed to the pipeline are
\* pending, not yet in the archive.
AddLooped(r, date, vf, force, L) ==
  /\ arc' = Write(Truncate(arc, r.block_offset),
                  writeTag(CBlock(date, 0 - 1, Size(r.ht)), L.fragile))
  /\ cmd' = "add_data"
  /\ jd' = [ht |-> L.ht, dt |-> L.dt, ver |-> r.ver, date |-> date,
            htsize |-> Size(r.ht), header_pos |-> r.block_offset,
            force |-> force, vf |-> vf, csize |-> <<>>, cdatasize |-> 0,
            fragile |-> L.fragile]
  /\ pending' = L.blocks
  /\ last' = "updating"

\* "Test if any files are to be added or deleted": with nothing to do add
\* returns and the archive is not opened for writing.
AddListed(r, dt, vf, deletions, date, force) ==
  IF Len(vf) = 0 /\ deletions = 0
    THEN /\ last' = "not updated"
         /\ UNCHANGED <<arc, cmd, jd, pending>>
    ELSE AddLooped(r, date, vf, force,
                   AddLoop(LoopInit(r.ht, dt), vf, date, tree))

\* "Adjust date to maintain sequential order": the transaction date is the
\* clock's, or one second behind the last version if the clock is not.
\* A slip of this code, for testing the claims: a clock that stands still
\* is let through.
TransactionDateLate(ver, now) ==
  IF Back(ver).date > now THEN Back(ver).date + 1 ELSE now

TransactionDate(ver, now) ==
  IF Back(ver).date >= now THEN Back(ver).date + 1 ELSE now

\* the list vf of files to add, the count of deletions and the transaction
\* date
AddScanned(r, dt, now, force) ==
  AddListed(r, dt,
            SortFiles({p \in DOMAIN dt : ToAdd(dt[p], force)}),
            Cardinality({p \in DOMAIN dt :
                           dt[p].written = 0 /\ dt[p].edate = 0}),
            TransactionDate(r.ver, now),
            force)

\* read_args on what read_archive (r) built
AddRead(r, command, files, now, force) ==
  AddScanned(r, read_args(r.dt, files, command = "-add", tree), now, force)

\* add or delete, from its start to the placeholder header: read_archive,
\* read_args, the lists of additions and deletions, the transaction date,
\* truncation of the archive to header_pos, the c block with payload -1;
\* then the loop that cuts the files into fragments and passes the d
\* blocks to the pipeline.
AddBegin(command, files, now, force) ==
  /\ cmd = "idle"
  /\ ncmd < MaxCommands
  /\ AddRead(read_archive(arc, DefaultVersion), command, files, now, force)
  /\ ncmd' = ncmd + 1
  /\ edited' = FALSE
  /\ UNCHANGED <<tree, hist>>
  /\ UNCHANGED <<restVars, extractVars>>

\* writeThread appends the next d block; its size goes to job.csize
AddWriteData ==
  /\ cmd = "add_data"
  /\ pending # <<>>
  /\ arc' = Write(arc, Head(pending))
  /\ pending' = Tail(pending)
  /\ jd' = [jd EXCEPT !.csize = Append(@, Head(pending).len)]
  /\ UNCHANGED <<tree, cmd, hist, ncmd, edited, last>>
  /\ UNCHANGED <<restVars, extractVars>>

\* The threads are joined: the compressed sizes are filled in, cdatasize is
\* taken, the h blocks and the i blocks are made up (pending: not yet in
\* the archive).
AddTables ==
  /\ cmd = "add_data"
  /\ pending = <<>>
  /\ LET ht1 == FillSizes(jd.ht, jd.htsize, jd.csize, 1)
         header_end == jd.header_pos + CBlock(jd.date, 0 - 1, jd.htsize).len
     IN /\ jd' = [jd EXCEPT !.ht = ht1,
                            !.cdatasize = ArchiveSize(arc) - header_end]
        /\ pending' =
             TableBlocks(ht1, jd.date, jd.htsize, <<>>, 0, <<>>)
               \o IndexBlocks(jd.dt, jd.force, jd.date,
                              InOrder(DOMAIN jd.dt), <<>>, 0, <<>>)
  /\ cmd' = "add_index"
  /\ UNCHANGED <<arc, tree, hist, ncmd, edited, last>>
  /\ UNCHANGED <<restVars, extractVars>>

\* compressBlock appends the next h or i block
AddWriteIndex ==
  /\ cmd = "add_index"
  /\ pending # <<>>
  /\ arc' = Write(arc, writeTag(Head(pending), jd.fragile))
  /\ pending' = Tail(pending)
  /\ UNCHANGED <<tree, cmd, jd, hist, ncmd, edited, last>>
  /\ UNCHANGED <<restVars, extractVars>>

\* "Back up and write the header": the c block at header_pos gets cdatasize.
\* The transaction is complete; hist keeps the archive as it is now and what
\* a reader makes of it.
AddHeader ==
  /\ cmd = "add_index"
  /\ pending = <<>>
  /\ LET n == findBlock(arc, jd.header_pos)
         a == [arc EXCEPT ![n] = [CBlock(jd.date, jd.cdatasize, jd.htsize)
                                    EXCEPT !.at = jd.header_pos,
                                           !.tag = ~jd.fragile]]
     IN /\ arc' = a
        /\ hist' = Push(hist, [arc |-> a,
                               jidac |-> Jidac(read_archive(a, DefaultVersion))])
  /\ cmd' = "idle"
  /\ jd' = NoJidac
  /\ last' = "updated"
  /\ UNCHANGED <<tree, pending, ncmd, edited>>
  /\ UNCHANGED <<restVars, extractVars>>

\* The process running add dies (kill, power loss) after the placeholder
\* header and before the back-patch.
Crash ==
  /\ cmd \in {"add_data", "add_index"}
  /\ cmd' = "idle"
  /\ jd' = NoJidac
  /\ pending' = <<>>
  /\ last' = "crashed"
  /\ UNCHANGED <<arc, tree, hist, ncmd, edited>>
  /\ UNCHANGED <<restVars, extractVars>>

\* ---------------------------------------------------------- Jidac::extract
\* Block(s, o).  The constructor sets offset, start, size and state and
\* leaves streaming as the memory held it: garbage stands for that value.
Block(s, o, garbage) ==
  [offset |-> o, files |-> <<>>, start |-> s, size |-> 0,
   streaming |-> garbage, state |-> "READY"]

\* "Map fragments to blocks" from fragment i; m holds job.block and hti,
\* garbage the value block n finds in its member streaming
RECURSIVE MapFragments(_, _, _, _)
MapFragments(ht, i, m, garbage) ==
  IF i >= Size(ht) THEN m
  ELSE
    LET b1 == IF ht[i].csize >= 0
                THEN Append(m.block,
                            Block(i, ht[i].csize, garbage[Len(m.block) + 1]))
                ELSE m.block
        b2 == IF ht[i].usize < 0 \/ ht[i].usize > 16777216
                THEN [b1 EXCEPT ![Len(b1)].streaming = TRUE]
                ELSE b1
    IN MapFragments(ht, i + 1,
                    [block |-> b2, hti |-> [m.hti EXCEPT ![i] = Len(b1)]],
                    garbage)

\* a file to extract: its latest version is a file and read_args marked it
Selected(d) == Live(d) /\ d.written = 0

\* "Make a list of files and the number of fragments to extract from each
\* block" for the file p with latest version dtv, from pointer i (from 1)
RECURSIVE ListFile(_, _, _, _, _, _)
ListFile(ht, hti, block, p, dtv, i) ==
  IF i > Len(dtv.ptr) THEN block
  ELSE IF dtv.ptr[i] = 0 \/ dtv.ptr[i] >= Size(ht)
    THEN ListFile(ht, hti, block, p, dtv, i + 1)      \* bad frag IDs
  ELSE
    LET c == IF ht[dtv.ptr[i]].csize > 0 THEN 0 ELSE 0 - ht[dtv.ptr[i]].csize
        j == hti[dtv.ptr[i]]
    IN ListFile(ht, hti,
         [block EXCEPT
            ![j].size = IF @ <= c THEN c + 1 ELSE @,
            ![j].files = IF @ = <<>> \/ @[Len(@)] # p THEN Append(@, p)
                         ELSE @,
            ![j].streaming = IF dtv.size < 0 THEN TRUE ELSE @],
         p, dtv, i + 1)

\* the loop "Don't clobber" over the paths ps of dt, for what it lists
RECURSIVE ListFiles(_, _, _, _, _)
ListFiles(ht, hti, block, dt, ps) ==
  IF ps = <<>> THEN block
  ELSE IF Selected(dt[Head(ps)])
    THEN ListFiles(ht, hti,
                   ListFile(ht, hti, block, Head(ps),
                            dt[Head(ps)].dtv[Len(dt[Head(ps)].dtv)], 1),
                   dt, Tail(ps))
  ELSE ListFiles(ht, hti, block, dt, Tail(ps))

\* what the block at n of the archive decompresses to
Payload(a, n) == IF a[n].type = "d" THEN a[n].body.data ELSE <<>>

\* the segment checksum stored with a d block is not that of its payload
Damaged(b) == b.type = "d" /\ ChecksumError(b)

\* "Verify fragment checksums if present" from fragment j to end-1; off is
\* the place of fragment j in out.  A fragment that verifies is marked
\* EXTRACTED at once; the first that does not throws.
RECURSIVE Verify(_, _, _, _, _)
Verify(ht, out, j, end, off) ==
  IF j >= end THEN [ht |-> ht, thrown |-> FALSE]
  ELSE IF SHA1(Slice(out, off, ht[j].usize)) # ht[j].sha1
            /\ ht[j].sha1 # ZeroSha1
    THEN [ht |-> ht, thrown |-> TRUE]
  ELSE Verify([ht EXCEPT ![j].csize = EXTRACTED], out, j + 1, end,
              off + ht[j].usize)

\* the try block of decompressThread for block b, n being the block that
\* findBlock found from ht[b.start].csize (0: none)
Decompress(a, ht, b, n) ==
  IF n = 0 THEN [ht |-> ht, thrown |-> TRUE]     \* archive block not found
  ELSE IF ContentLen(Payload(a, n)) < SumSizes(ht, b.start, b.start + b.size)
    THEN [ht |-> ht, thrown |-> TRUE]    \* unexpected end of compressed data
  ELSE Verify(ht, Payload(a, n), b.start, b.start + b.size, 0)

\* OutputFile::write(bufp, pos, size) on a file of content data: fseeko
\* behind the end leaves a gap that reads as zeros once bytes are written.
\* A slip of this code, for testing the claims: the bytes go to the end of
\* the file, wherever pos is.
WriteAppend(data, pos, bytes) == Cat(data, bytes)

WriteAt(data, pos, bytes) ==
  IF bytes = <<>> THEN data
  ELSE Cat(Cat(IF pos > ContentLen(data)
                 THEN Cat(data, Run(0, pos - ContentLen(data)))
                 ELSE Take(data, pos),
               bytes),
           Drop(data, pos + ContentLen(bytes)))

\* "Write the fragment and any consecutive fragments that follow": the last
\* pointer written with pointer j
RECURSIVE LastMerged(_, _, _)
LastMerged(ptr, j, b) ==
  IF j + 1 <= Len(ptr) /\ ptr[j + 1] = ptr[j] + 1
       /\ ptr[j + 1] < b.start + b.size
    THEN LastMerged(ptr, j + 1, b)
    ELSE j

\* A file being written has the date of the writing, which is no date of
\* the archive.
Writing(data) == [date |-> 0 - 1, data |-> data]

\* One pointer j of file p to block b is found: the file is opened if it is
\* not the open one (created or cut to nothing if nothing of it was written
\* yet), pointers j..j2 are written at offset, and the file is closed with
\* its date when all its fragments are written.  S holds dt, the output
\* directory, job.lastdt (0 is dt.end()) and whether job.outf is open.
PointerWritten(S, ht, b, out, p, ptr, j, j2, offset) ==
  [dt |-> [S.dt EXCEPT ![p].written = @ + (j2 - j + 1)],
   dir |-> [S.dir EXCEPT ![p] =
      IF S.dt[p].written + (j2 - j + 1) = Len(ptr)
        THEN [date |-> S.dt[p].dtv[Len(S.dt[p].dtv)].date,
              data |-> WriteAt(
                 IF p # S.lastdt /\ S.dt[p].written = 0 THEN <<>> ELSE @.data,
                 offset,
                 Slice(out, SumSizes(ht, b.start, ptr[j]),
                       SumSizes(ht, ptr[j], ptr[j2] + 1)))]
        ELSE Writing(WriteAt(
                 IF p # S.lastdt /\ S.dt[p].written = 0 THEN <<>> ELSE @.data,
                 offset,
                 Slice(out, SumSizes(ht, b.start, ptr[j]),
                       SumSizes(ht, ptr[j], ptr[j2] + 1))))],
   lastdt |-> IF S.dt[p].written + (j2 - j + 1) = Len(ptr) THEN 0 ELSE p,
   isopen |-> S.dt[p].written + (j2 - j + 1) # Len(ptr)]

\* "Look for pointers to this block" in the pointers ptr of file p, from
\* pointer j (from 1), offset being the write offset
RECURSIVE WritePointers(_, _, _, _, _, _, _, _)
WritePointers(S, ht, b, out, p, ptr, j, offset) ==
  IF j > Len(ptr) THEN S
  ELSE IF ptr[j] < b.start \/ ptr[j] >= b.start + b.size
    THEN WritePointers(S, ht, b, out, p, ptr, j + 1,
                       offset + ht[ptr[j]].usize)
  ELSE WritePointers(
         PointerWritten(S, ht, b, out, p, ptr, j, LastMerged(ptr, j, b),
                        offset),
         ht, b, out, p, ptr, LastMerged(ptr, j, b) + 1,
         offset + SumSizes(ht, ptr[j], ptr[LastMerged(ptr, j, b)] + 1))

\* "Write the files in dt that point to this block", from file ip (from 1)
RECURSIVE WriteFiles(_, _, _, _, _)
WriteFiles(S, ht, b, out, ip) ==
  IF ip > Len(b.files) THEN S
  ELSE IF S.dt[b.files[ip]].written < 0
            \/ Len(S.dt[b.files[ip]].dtv) = 0
            \/ S.dt[b.files[ip]].written
                 >= Len(S.dt[b.files[ip]].dtv[Len(S.dt[b.files[ip]].dtv)].ptr)
    THEN WriteFiles(S, ht, b, out, ip + 1)              \* don't write
  ELSE WriteFiles(
         WritePointers(S, ht, b, out, b.files[ip],
            S.dt[b.files[ip]].dtv[Len(S.dt[b.files[ip]].dtv)].ptr, 1, 0),
         ht, b, out, ip + 1)

\* "Report failed extractions": the fragments of d extracted OK, and
\* whether d is a file that failed
ExtractedOK(ht, d) ==
  Cardinality({j \in 1..Len(d.dtv[Len(d.dtv)].ptr) :
                 /\ d.dtv[Len(d.dtv)].ptr[j] > 0
                 /\ d.dtv[Len(d.dtv)].ptr[j] < Size(ht)
                 /\ ht[d.dtv[Len(d.dtv)].ptr[j]].csize = EXTRACTED})

FailedFile(ht, d) ==
  /\ Live(d)
  /\ d.written >= 0
  /\ \/ ExtractedOK(ht, d) # Len(d.dtv[Len(d.dtv)].ptr)
     \/ ExtractedOK(ht, d) # d.written

\* ------------------------------------------- archive: the specification
ArchiveNext ==
  \/ \E p \in Paths, f \in Files \cup {NoFile} : Edit(p, f)
  \/ \E now \in Clock : AddBegin("-add", Paths, now, FALSE)
  \/ \E p \in Paths, now \in Clock : AddBegin("-delete", {p}, now, FALSE)
  \/ AddWriteData
  \/ AddTables
  \/ AddWriteIndex
  \/ AddHeader
  \/ Crash

ArchiveSpec == ArchiveInit /\ [][ArchiveNext]_vars

\* ------------------------------------ archive: index records of any writer
\* The archive is a file: read_archive takes what any program has put in
\* it.  Another writer appends a complete transaction (a c block with no
\* data behind it, then an i block) whose one record names path p with the
\* fragment IDs ptr.
ForeignIDs(a) ==
  LET n == Size(read_archive(a, DefaultVersion).ht)
  IN {<<0>>, <<1>>, <<n>>, <<n + 16777216>>, <<1, 0>>}

AppendIndex(date, p, ptr) ==
  /\ cmd = "idle"
  /\ ncmd < MaxCommands
  /\ LET r == read_archive(arc, DefaultVersion)
         a == Write(Write(arc, CBlock(date, 0, Size(r.ht))),
                    IBlock(date, 1, <<[date |-> date, path |-> p,
                                       attr |-> 0, ptr |-> ptr]>>))
     IN /\ arc' = a
        /\ hist' = Push(hist, [arc |-> a,
                               jidac |-> Jidac(read_archive(a, DefaultVersion))])
  /\ ncmd' = ncmd + 1
  /\ last' = "foreign"
  /\ UNCHANGED <<tree, cmd, jd, pending, edited>>
  /\ UNCHANGED <<restVars, extractVars>>

ForeignNext ==
  \/ \E p \in Paths, f \in Files \cup {NoFile} : Edit(p, f)
  \/ \E now \in Clock : AddBegin("-add", Paths, now, FALSE)
  \/ \E p \in Paths, now \in Clock : AddBegin("-delete", {p}, now, FALSE)
  \/ AddWriteData
  \/ AddTables
  \/ AddWriteIndex
  \/ AddHeader
  \/ Crash
  \/ \E now \in Clock, p \in Paths, ptr \in ForeignIDs(arc) :
        AppendIndex(now, p, ptr)

ForeignSpec == ArchiveInit /\ [][ForeignNext]_vars

\* ------------------------------------- archive: commands with -until
\* the clock values of a clock that may stand still or be set back
AnyClock == {1, 3}

\* the values of -until: version 1, or none given
Untils == {1, DefaultVersion}

\* the first n entries of the history
Cut(h, n) == [v \in 0..(n - 1) |-> h[v]]

\* add or delete with -until version, from its start to the placeholder
\* header, as AddBegin: read_archive stops at the first c block beyond
\* version and returns its offset, and when there is something to add or
\* delete the archive is cut there, so that the transactions that followed
\* are gone from the archive (and from the history).
AddUntil(command, files, now, force, version) ==
  /\ cmd = "idle"
  /\ ncmd < MaxJournal
  /\ AddRead(read_archive(arc, version), command, files, now, force)
  /\ hist' = IF last' = "updating" THEN Cut(hist, Size(jd'.ver)) ELSE hist
  /\ ncmd' = ncmd + 1
  /\ edited' = FALSE
  /\ UNCHANGED tree
  /\ UNCHANGED <<restVars, extractVars>>

JournalNext ==
  \/ \E p \in Paths, f \in Files \cup {NoFile} : Edit(p, f)
  \/ \E now \in AnyClock, version \in Untils :
       AddUntil("-add", Paths, now, FALSE, version)
  \/ \E p \in Paths, now \in AnyClock, version \in Untils :
       AddUntil("-delete", {p}, now, FALSE, version)
  \/ AddWriteData
  \/ AddTables
  \/ AddWriteIndex
  \/ AddHeader
  \/ Crash

JournalSpec == ArchiveInit /\ [][JournalNext]_vars

\* ---------------------------------------------------- the -until argument
\* Dates are 14-digit numbers (yyyymmddhhmmss), wider than the checker's
\* integers: a number n is kept as <<n \div 10^7, n % 10^7>>.
Wide(n) == <<n \div 10000000, n % 10000000>>

\* d * 10^e + rest, for a number d of at most 8 digits and rest < 10^e
Digits(d, rest, e) ==
  LET s == 10 ^ (7 - e)
  IN IF e = 0 THEN Wide(d) ELSE <<d \div s, (d % s) * (10 ^ e) + rest>>

WLess(x, y) == x[1] < y[1] \/ (x[1] = y[1] /\ x[2] < y[2])

WLeq(x, y) == ~WLess(y, x)

WBetween(x, lo, hi) == WLeq(lo, x) /\ WLeq(x, hi)

\* x * 100 + c
WTimes100Plus(x, c) ==
  LET l == x[2] * 100 + c
  IN <<x[1] * 100 + l \div 10000000, l % 10000000>>

\* doCommand on -until: version as it stands before the range test.
\* A slip of this code, for testing the claims: a date is completed to the
\* start of its last hour.
ParseVersionHour(a) ==
  LET v1 == IF WBetween(a, Wide(19000000), Wide(29991231))
              THEN WTimes100Plus(a, 23) ELSE a
      v2 == IF WBetween(v1, Digits(19000000, 0, 2), Digits(29991231, 23, 2))
              THEN WTimes100Plus(v1, 0) ELSE v1
  IN IF WBetween(v2, Digits(19000000, 0, 4), Digits(29991231, 2359, 4))
       THEN WTimes100Plus(v2, 0) ELSE v2

ParseVersion(a) ==
  LET v1 == IF WBetween(a, Wide(19000000), Wide(29991231))
              THEN WTimes100Plus(a, 23) ELSE a
      v2 == IF WBetween(v1, Digits(19000000, 0, 2), Digits(29991231, 23, 2))
              THEN WTimes100Plus(v1, 59) ELSE v1
  IN IF WBetween(v2, Digits(19000000, 0, 4), Digits(29991231, 2359, 4))
       THEN WTimes100Plus(v2, 59) ELSE v2

\* the range test that ends the program with exit(1)
BadVersion(v) ==
  /\ WLess(Wide(9999999), v)
  /\ \/ WLess(v, Digits(19000101, 0, 6))
     \/ WLess(Digits(29991231, 235959, 6), v)

\* read_archive at a transaction header dated fdate, nver = size(ver).
\* A slip of this code, for testing the claims: a snapshot dated exactly
\* at the limit is left out.
IsBreakAtLimit(version, nver, fdate) ==
  IF WLess(version, Digits(19000000, 0, 6)) THEN WLess(version, Wide(nver))
  ELSE WLeq(version, fdate)

IsBreak(version, nver, fdate) ==
  IF WLess(version, Digits(19000000, 0, 6)) THEN WLess(version, Wide(nver))
  ELSE WLess(version, fdate)

\* the dates of the snapshots of an archive, in the order of the file
SnapshotDates ==
  <<Digits(20241231, 235959, 6), Digits(20250101, 120000, 6),
    Digits(20250101, 235959, 6), Digits(20250102, 0, 6),
    Digits(20250102, 1, 6), Digits(20250103, 0, 6)>>

RECURSIVE Among(_, _, _)
Among(s, S, i) ==
  IF i > Len(s) THEN <<>>
  ELSE (IF i \in S THEN <<s[i]>> ELSE <<>>) \o Among(s, S, i + 1)

\* an argument as written: the digits d, then rest in e more digits
Argument(d, rest, e) == [d |-> d, rest |-> rest, e |-> e]

UntilArgs ==
  {Argument(n, 0, 0) : n \in {0, 1, 2, 3, 7, 9999999, 10000000, 18991231,
                             19000000, 20250101, 20250102, 20250103,
                             29991231, 30000101}}
  \cup {Argument(20250101, 23, 2), Argument(20250102, 0, 2),
        Argument(29991231, 24, 2),
        Argument(20250101, 2359, 4), Argument(20250102, 0, 4),
        Argument(20250102, 0, 6), Argument(20250102, 1, 6),
        Argument(20250101, 235959, 6), Argument(29991231, 235960, 6)}

UntilInit ==
  /\ until \in {[pc |-> "args", arg |-> a, version |-> <<999999, 9999999>>,
                 dates |-> Among(SnapshotDates, S, 1), ver |-> <<>>] :
                  a \in UntilArgs, S \in SUBSET (1..Len(SnapshotDates))}
  /\ ArchiveAtRest
  /\ PipelineAtRest
  /\ LoopAtRest

\* doCommand reads -until
ParseUntil ==
  /\ until.pc = "args"
  /\ LET v == ParseVersion(Digits(until.arg.d, until.arg.rest, until.arg.e))
     IN until' = [until EXCEPT !.version = v,
                               !.pc = IF BadVersion(v) THEN "exit"
                                      ELSE "read"]
  /\ UNCHANGED <<pipeVars, journalVars, loopVars>>

\* read_archive meets the next transaction header
ReadSnapshot ==
  /\ until.pc = "read"
  /\ Len(until.ver) < Len(until.dates)
  /\ LET fdate == until.dates[Len(until.ver) + 1]
     IN IF IsBreak(until.version, Len(until.ver) + 1, fdate)
          THEN until' = [until EXCEPT !.pc = "done"]
          ELSE until' = [until EXCEPT !.ver = Append(@, fdate)]
  /\ UNCHANGED <<pipeVars, journalVars, loopVars>>

\* read_archive meets the end of the archive
ReadEnd ==
  /\ until.pc = "read"
  /\ Len(until.ver) = Len(until.dates)
  /\ until' = [until EXCEPT !.pc = "done"]
  /\ UNCHANGED <<pipeVars, journalVars, loopVars>>

UntilNext == ParseUntil \/ ReadSnapshot \/ ReadEnd

UntilSpec == UntilInit /\ [][UntilNext]_vars

\* ------------------------------------------------------ extract: actions
\* Bit rot: the bytes of fragment n of the d block at place m change, the
\* checksums stored stay.  At most one block of the archive is damaged.
Damage(m, n) ==
  /\ cmd = "idle"
  /\ \A i \in 1..Len(arc) : ~Damaged(arc[i])
  /\ arc[m].type = "d"
  /\ n \in 1..Len(arc[m].body.sizes)
  /\ arc[m].body.sizes[n] > 0
  /\ arc' = [arc EXCEPT ![m].body.data =
               Cat(Cat(Take(@, SumSeq(arc[m].body.sizes, n - 1)),
                       Run(9, arc[m].body.sizes[n])),
                   Drop(@, SumSeq(arc[m].body.sizes, n)))]
  /\ UNCHANGED <<tree, cmd, jd, pending, hist, ncmd, edited, last>>
  /\ UNCHANGED <<restVars, extractVars>>

\* The fragments are mapped to blocks (m) and the files listed: the job is
\* made up and the threads are started.  extract does not overwrite a file
\* that exists.  A slip of this code, for testing the claims: the files
\* that exist are not looked for.
ExtractListedForce(r, dt, m, T) ==
  /\ cmd' = "extract"
  /\ ejob' = [ht |-> r.ht, dt |-> dt,
              block |-> ListFiles(r.ht, m.hti, m.block, dt,
                                  InOrder(DOMAIN dt)),
              lastdt |-> 0, isopen |-> FALSE]
  /\ ethread' = [t \in 0..T |->
                   IF t = 0 THEN [pc |-> "stream", i |-> 1]
                   ELSE [pc |-> "find", i |-> 1]]
  /\ UNCHANGED <<outdir, eret>>

ExtractListed(r, dt, m, T) ==
  IF \E p \in DOMAIN dt : Selected(dt[p]) /\ outdir[p] # NoFile
    THEN /\ cmd' = "extracted"         \* won't clobber existing files
         /\ eret' = 2
         /\ UNCHANGED <<ejob, ethread, outdir>>
    ELSE /\ cmd' = "extract"
         /\ ejob' = [ht |-> r.ht, dt |-> dt,
                     block |-> ListFiles(r.ht, m.hti, m.block, dt,
                                         InOrder(DOMAIN dt)),
                     lastdt |-> 0, isopen |-> FALSE]
         /\ ethread' = [t \in 0..T |->
                          IF t = 0 THEN [pc |-> "stream", i |-> 1]
                          ELSE [pc |-> "find", i |-> 1]]
         /\ UNCHANGED <<outdir, eret>>

\* read_archive has returned r
ExtractRead(r, T, garbage) ==
  IF r.block_offset = 0
    THEN /\ cmd' = "extracted"
         /\ eret' = 1
         /\ UNCHANGED <<ejob, ethread, outdir>>
    ELSE ExtractListed(r, read_args(r.dt, {}, FALSE, tree),
                       MapFragments(r.ht, 1,
                                    [block |-> <<>>,
                                     hti |-> [i \in DOMAIN r.ht |-> 0]],
                                    garbage),
                       T)

\* extract of all files with -threads T, from its start to the start of
\* the threads
ExtractBegin(T, garbage) ==
  /\ cmd = "idle"
  /\ ExtractRead(read_archive(arc, DefaultVersion), T, garbage)
  /\ UNCHANGED <<arc, tree, jd, pending, hist, ncmd, edited, last>>
  /\ UNCHANGED restVars

\* decompressThread w, "Look for next READY job": one pass of the loop up
\* to the release of the mutex.  A slip of this code, for testing the
\* claims: the thread takes a streaming block as any other.
DecompressFindStreaming(w) ==
  /\ cmd = "extract"
  /\ w \in DOMAIN ethread
  /\ ethread[w].pc = "find"
  /\ IF ethread[w].i > Len(ejob.block)
       THEN /\ ethread' = [ethread EXCEPT ![w].pc = "done"]
            /\ UNCHANGED ejob
       ELSE IF /\ ejob.block[ethread[w].i].state = "READY"
               /\ ejob.block[ethread[w].i].size > 0
         THEN /\ ejob' = [ejob EXCEPT
                            !.block[ethread[w].i].state = "WORKING"]
              /\ ethread' = [ethread EXCEPT ![w].pc = "decompress"]
         ELSE /\ ethread' = [ethread EXCEPT ![w].i = @ + 1]
              /\ UNCHANGED ejob
  /\ UNCHANGED <<arc, tree, cmd, jd, pending, hist, ncmd, edited, last>>
  /\ UNCHANGED <<outdir, eret, restVars>>

DecompressFind(w) ==
  /\ cmd = "extract"
  /\ w \in DOMAIN ethread
  /\ ethread[w].pc = "find"
  /\ IF ethread[w].i > Len(ejob.block)
       THEN /\ ethread' = [ethread EXCEPT ![w].pc = "done"]
            /\ UNCHANGED ejob
       ELSE IF /\ ejob.block[ethread[w].i].state = "READY"
               /\ ejob.block[ethread[w].i].size > 0
               /\ ~ejob.block[ethread[w].i].streaming
         THEN /\ ejob' = [ejob EXCEPT
                            !.block[ethread[w].i].state = "WORKING"]
              /\ ethread' = [ethread EXCEPT ![w].pc = "decompress"]
         ELSE /\ ethread' = [ethread EXCEPT ![w].i = @ + 1]
              /\ UNCHANGED ejob
  /\ UNCHANGED <<arc, tree, cmd, jd, pending, hist, ncmd, edited, last>>
  /\ UNCHANGED <<outdir, eret, restVars>>

\* v is what the try block left
Decompressed(w, v) ==
  /\ ejob' = [ejob EXCEPT !.ht = v.ht]
  /\ ethread' = [ethread EXCEPT
                   ![w].pc = IF v.thrown THEN "find" ELSE "write",
                   ![w].i = IF v.thrown THEN @ + 1 ELSE @]

\* decompressThread w decompresses its block and verifies the fragments; a
\* block that throws is skipped
DecompressBlock(w) ==
  /\ cmd = "extract"
  /\ w \in DOMAIN ethread
  /\ ethread[w].pc = "decompress"
  /\ Decompressed(w,
       Decompress(arc, ejob.ht, ejob.block[ethread[w].i],
                  findBlock(arc,
                            ejob.ht[ejob.block[ethread[w].i].start].csize)))
  /\ UNCHANGED <<arc, tree, cmd, jd, pending, hist, ncmd, edited, last>>
  /\ UNCHANGED <<outdir, eret, restVars>>

\* S is what the loop over the files of the block left
Written(w, S) ==
  /\ ejob' = [ejob EXCEPT !.dt = S.dt, !.lastdt = S.lastdt,
                          !.isopen = S.isopen]
  /\ outdir' = S.dir
  /\ ethread' = [ethread EXCEPT ![w].pc = "find", ![w].i = @ + 1]

\* decompressThread w, from lock(job.write_mutex) to its release.  The
\* block is read again here as it was decompressed: the archive does not
\* change while extract runs.
DecompressWrite(w) ==
  /\ cmd = "extract"
  /\ w \in DOMAIN ethread
  /\ ethread[w].pc = "write"
  /\ Written(w,
       WriteFiles([dt |-> ejob.dt, dir |-> outdir, lastdt |-> ejob.lastdt,
                   isopen |-> ejob.isopen],
                  ejob.ht, ejob.block[ethread[w].i],
                  Payload(arc, findBlock(arc,
                                         ejob.block[ethread[w].i].offset)),
                  1))
  /\ UNCHANGED <<arc, tree, cmd, jd, pending, hist, ncmd, edited, last>>
  /\ UNCHANGED <<eret, restVars>>

\* "Decompress streaming files in a single thread": one pass of the loop of
\* the main thread.  The one segment of a d block is named after the block,
\* which is no file of dt, so its output goes nowhere; if its checksum
\* holds, the first fragment of the block is marked EXTRACTED.
ExtractStream ==
  /\ cmd = "extract"
  /\ ethread[0].pc = "stream"
  /\ IF ethread[0].i > Len(ejob.block)
       THEN /\ ethread' = [ethread EXCEPT ![0].pc = "join"]
            /\ UNCHANGED ejob
       ELSE /\ ethread' = [ethread EXCEPT ![0].i = @ + 1]
            /\ IF /\ ejob.block[ethread[0].i].size # 0
                  /\ ejob.block[ethread[0].i].streaming
                  /\ findBlock(arc, ejob.block[ethread[0].i].offset) # 0
                  /\ ~Damaged(arc[findBlock(arc,
                                     ejob.block[ethread[0].i].offset)])
                 THEN ejob' = [ejob EXCEPT
                        !.ht[ejob.block[ethread[0].i].start].csize =
                           EXTRACTED]
                 ELSE UNCHANGED ejob
  /\ UNCHANGED <<arc, tree, cmd, jd, pending, hist, ncmd, edited, last>>
  /\ UNCHANGED <<outdir, eret, restVars>>

\* The threads are joined and the failed extractions reported; extract
\* returns errors>0.  A file left open is closed when the job goes.
ExtractReport ==
  /\ cmd = "extract"
  /\ ethread[0].pc = "join"
  /\ \A w \in DOMAIN ethread \ {0} : ethread[w].pc = "done"
  /\ eret' = IF \E p \in DOMAIN ejob.dt : FailedFile(ejob.ht, ejob.dt[p])
               THEN 1 ELSE 0
  /\ ejob' = [ejob EXCEPT !.isopen = FALSE]
  /\ ethread' = [ethread EXCEPT ![0].pc = "done"]
  /\ cmd' = "extracted"
  /\ UNCHANGED <<arc, tree, jd, pending, hist, ncmd, edited, last>>
  /\ UNCHANGED <<outdir, restVars>>

\* ------------------------------------------- extract: the specification
ExtractNext ==
  \/ \E p \in Paths, f \in Files \cup {NoFile} : Edit(p, f)
  \/ \E now \in Clock : AddBegin("-add", Paths, now, FALSE)
  \/ AddWriteData
  \/ AddTables
  \/ AddWriteIndex
  \/ AddHeader
  \/ \E m \in 1..Len(arc), n \in 1..3 : Damage(m, n)
  \/ \E T \in 1..MaxThreads, garbage \in [1..MaxCommands -> BOOLEAN] :
       ExtractBegin(T, garbage)
  \/ \E w \in 1..MaxThreads : DecompressFind(w)
  \/ \E w \in 1..MaxThreads : DecompressBlock(w)
  \/ \E w \in 1..MaxThreads : DecompressWrite(w)
  \/ ExtractStream
  \/ ExtractReport

ExtractSpec == ArchiveInit /\ [][ExtractNext]_vars

\* ------------------------------- extract: into a directory that has files
\* a file that is in the output directory before extract starts
Existing == [date |-> 1, data |-> Run(7, 3)]

ClobberInit ==
  /\ arc = <<>>
  /\ tree \in [Paths -> {NoFile} \cup {f \in Files : f.date = 1}]
  /\ cmd = "idle"
  /\ jd = NoJidac
  /\ pending = <<>>
  /\ hist = Push(EmptyVec, [arc |-> <<>>, jidac |-> JidacInit])
  /\ ncmd = 0
  /\ edited = FALSE
  /\ last = "none"
  /\ ejob = NoJidac
  /\ ethread = <<>>
  /\ outdir \in [Paths -> {NoFile, Existing}]
  /\ eret = 0 - 1
  /\ PipelineAtRest
  /\ CliAtRest
  /\ LoopAtRest

ClobberNext ==
  \/ \E p \in Paths, f \in Files \cup {NoFile} : Edit(p, f)
  \/ \E now \in Clock : AddBegin("-add", Paths, now, FALSE)
  \/ \E p \in Paths, now \in Clock : AddBegin("-delete", {p}, now, FALSE)
  \/ AddWriteData
  \/ AddTables
  \/ AddWriteIndex
  \/ AddHeader
  \/ \E T \in 1..MaxThreads, garbage \in [1..MaxCommands -> BOOLEAN] :
       ExtractBegin(T, garbage)
  \/ \E w \in 1..MaxThreads : DecompressFind(w)
  \/ \E w \in 1..MaxThreads : DecompressBlock(w)
  \/ \E w \in 1..MaxThreads : DecompressWrite(w)
  \/ ExtractStream
  \/ ExtractReport

ClobberSpec == ClobberInit /\ [][ClobberNext]_vars

\* ------------------------------------------------------------ Jidac::test
\* "Make a list of blocks to decompress" from fragment i.  The member
\* streaming of a Block, which the constructor leaves unset, is not read
\* by test or testThread: FALSE stands for it.
RECURSIVE TestBlocks(_, _, _)
TestBlocks(ht, i, block) ==
  IF i >= Size(ht) THEN block
  ELSE LET b1 == IF ht[i].csize >= 0
                   THEN Append(block, Block(i, ht[i].csize, FALSE))
                   ELSE block
       IN TestBlocks(ht, i + 1, [b1 EXCEPT ![Len(b1)].size = @ + 1])

\* "version dates are out of sequence", from version i; latest is the last
\* date met
RECURSIVE OutOfSequence(_, _, _)
OutOfSequence(ver, i, latest) ==
  IF i >= Size(ver) THEN FALSE
  ELSE IF ver[i].date # 0
    THEN ver[i].date <= latest \/ OutOfSequence(ver, i + 1, ver[i].date)
  ELSE OutOfSequence(ver, i + 1, latest)

\* a fragment ID for which test throws "index corrupted"
OutOfRange(ht, id, archive_end) ==
  \/ id < 1
  \/ id >= Size(ht)
  \/ ht[id].csize > archive_end
  \/ ht[id].csize < 0 - id

\* the fragment IDs of all versions of all files
Referenced(dt) ==
  UNION {UNION {{dt[p].dtv[v].ptr[j] : j \in 1..Len(dt[p].dtv[v].ptr)} :
                  v \in 1..Len(dt[p].dtv)} : p \in DOMAIN dt}

\* OutTester::put over the output of a d block that holds fragments
\* n..n+f-1: TRUE if it throws.  From fragment j, whose bytes begin at off.
RECURSIVE BadChecksum(_, _, _, _, _)
BadChecksum(ht, data, j, end, off) ==
  IF j >= end THEN FALSE
  ELSE IF ht[j].usize <= 0 THEN BadChecksum(ht, data, j + 1, end, off)
  ELSE \/ SHA1(Slice(data, off, ht[j].usize)) # ht[j].sha1
       \/ BadChecksum(ht, data, j + 1, end, off + ht[j].usize)

\* A slip of this code, for testing the claims: every entry of the size
\* list has to be the size in ht.
BadSizeExact(ht, n, f, sizes, j) == sizes[j] # ht[n + j - 1].usize

\* The 4-byte words behind the fragments' bytes are read as the size list
\* of f entries, the first fragment ID and the count, whatever they were
\* written as.  "bad frag size": entry j (from 1) of f
BadSize(ht, n, f, sizes, j) ==
  /\ sizes[j] # ht[n + j - 1].usize
  /\ \/ j > 2
     \/ j = 1 /\ sizes[j] # 0 /\ sizes[j] # n
     \/ j = 2 /\ sizes[j] # 0 /\ sizes[j] # f

BadList(ht, n, f, words) ==
  \/ Len(words) > f + 2                  \* wrote past end of block
  \/ \E j \in 1..Min(f, Len(words)) : BadSize(ht, n, f, words, j)
  \/ /\ Len(words) >= f + 1              \* bad frag start
     /\ words[f + 1] # n /\ words[f + 1] # 0
  \/ /\ Len(words) >= f + 2              \* bad frag list size
     /\ words[f + 2] # f /\ words[f + 2] # 0

OutTesterThrows(ht, n, f, body) ==
  \/ BadChecksum(ht, body.data, n, n + f, 0)
  \/ ContentLen(body.data) # SumSizes(ht, n, n + f)
  \/ BadList(ht, n, f, body.sizes \o <<body.first, body.count>>)

\* the try block of testThread for block b, n being the block that
\* findBlock found from ht[b.start].csize (0: none): TRUE if it throws.
\* The comment of a d block is the size of its payload.
TestThrows(a, ht, b, n) ==
  \/ n = 0                               \* archive block not found
  \/ a[n].type # "d"                     \* bad filename type
  \/ a[n].num # b.start                  \* bad fragment id in filename
  \/ LET outsize == 8 + SumSizes(ht, b.start, b.start + b.size) + 4 * b.size
         dsize == a[n].len - NameLen
     IN \/ dsize # outsize /\ dsize # outsize - 4 * b.size
        \/ OutTesterThrows(ht, b.start, b.size, a[n].body)
        \/ Damaged(a[n])                 \* checksum mismatch

\* "Mark successfully extracted fragments"
MarkExtracted(ht, b) ==
  [i \in DOMAIN ht |->
     IF i >= b.start /\ i < b.start + b.size
       THEN [ht[i] EXCEPT !.csize = EXTRACTED] ELSE ht[i]]

\* test with -threads T, from its start to the start of the threads; r is
\* what read_archive(&errors) has returned
TestRead(r, T) ==
  IF \E id \in Referenced(r.dt) : OutOfRange(r.ht, id, r.block_offset)
    THEN /\ cmd' = "tested"              \* index corrupted
         /\ eret' = 1
         /\ UNCHANGED <<ejob, ethread>>
    ELSE /\ cmd' = "test"
         /\ ejob' = [ht |-> r.ht, dt |-> r.dt,
                     block |-> TestBlocks(r.ht, 1, <<>>),
                     iserr |-> r.errors > 0 \/ OutOfSequence(r.ver, 1, 0)]
         /\ ethread' = [t \in 0..T |->
                          IF t = 0 THEN [pc |-> "join", i |-> 1]
                          ELSE [pc |-> "find", i |-> 1]]
         /\ UNCHANGED eret

TestBegin(T) ==
  /\ cmd = "idle"
  /\ eret = 0 - 1
  /\ TestRead(read_archive_errors(arc, DefaultVersion), T)
  /\ UNCHANGED <<arc, tree, jd, pending, hist, ncmd, edited, last>>
  /\ UNCHANGED <<outdir, restVars>>

\* testThread w, "Look for next READY job": one pass of the loop up to the
\* release of the mutex
TestFind(w) ==
  /\ cmd = "test"
  /\ w \in DOMAIN ethread
  /\ ethread[w].pc = "find"
  /\ IF ethread[w].i > Len(ejob.block)
       THEN /\ ethread' = [ethread EXCEPT ![w].pc = "done"]
            /\ UNCHANGED ejob
       ELSE IF ejob.block[ethread[w].i].state = "READY"
         THEN /\ ejob' = [ejob EXCEPT
                            !.block[ethread[w].i].state = "WORKING"]
              /\ ethread' = [ethread EXCEPT ![w].pc = "test"]
         ELSE /\ ethread' = [ethread EXCEPT ![w].i = @ + 1]
              /\ UNCHANGED ejob
  /\ UNCHANGED <<arc, tree, cmd, jd, pending, hist, ncmd, edited, last>>
  /\ UNCHANGED <<outdir, eret, restVars>>

\* thrown is what the try block did.  A slip of this code, for testing the
\* claims: a block that throws is marked as one that does not.
TestedGood(w, thrown) ==
  /\ ejob' = [ejob EXCEPT
                !.block[ethread[w].i].state = "GOOD",
                !.ht = MarkExtracted(@, ejob.block[ethread[w].i])]
  /\ ethread' = [ethread EXCEPT ![w].pc = "find", ![w].i = @ + 1]

Tested(w, thrown) ==
  /\ ejob' = [ejob EXCEPT
                !.block[ethread[w].i].state = IF thrown THEN "BAD" ELSE "GOOD",
                !.ht = IF thrown THEN @
                       ELSE MarkExtracted(@, ejob.block[ethread[w].i])]
  /\ ethread' = [ethread EXCEPT ![w].pc = "find", ![w].i = @ + 1]

\* testThread w decompresses its block and verifies it
TestBlock(w) ==
  /\ cmd = "test"
  /\ w \in DOMAIN ethread
  /\ ethread[w].pc = "test"
  /\ Tested(w, TestThrows(arc, ejob.ht, ejob.block[ethread[w].i],
                          findBlock(arc,
                            ejob.ht[ejob.block[ethread[w].i].start].csize)))
  /\ UNCHANGED <<arc, tree, cmd, jd, pending, hist, ncmd, edited, last>>
  /\ UNCHANGED <<outdir, eret, restVars>>

\* a version of a file with a fragment that is not marked EXTRACTED
DamagedFile(ht, dtv) ==
  \E j \in 1..Len(dtv.ptr) :
    dtv.ptr[j] < 1 \/ dtv.ptr[j] >= Size(ht)
      \/ ht[dtv.ptr[j]].csize # EXTRACTED

\* The threads are joined, the bad blocks and the damaged files counted;
\* test throws "archive corrupted" (1) or returns (0).
TestReport ==
  /\ cmd = "test"
  /\ \A w \in DOMAIN ethread \ {0} : ethread[w].pc = "done"
  /\ eret' = IF \/ ejob.iserr
                \/ \E i \in 1..Len(ejob.block) : ejob.block[i].state # "GOOD"
                \/ \E p \in DOMAIN ejob.dt :
                     \E v \in 1..Len(ejob.dt[p].dtv) :
                       DamagedFile(ejob.ht, ejob.dt[p].dtv[v])
               THEN 1 ELSE 0
  /\ ethread' = [ethread EXCEPT ![0].pc = "done"]
  /\ cmd' = "tested"
  /\ UNCHANGED <<arc, tree, jd, pending, hist, ncmd, edited, last>>
  /\ UNCHANGED <<ejob, outdir, restVars>>

TestNext ==
  \/ \E p \in Paths, f \in Files \cup {NoFile} : Edit(p, f)
  \/ \E now \in Clock : AddBegin("-add", Paths, now, FALSE)
  \/ \E p \in Paths, now \in Clock : AddBegin("-delete", {p}, now, FALSE)
  \/ AddWriteData
  \/ AddTables
  \/ AddWriteIndex
  \/ AddHeader
  \/ \E m \in 1..Len(arc), n \in 1..3 : Damage(m, n)
  \/ \E T \in 1..MaxThreads : TestBegin(T)
  \/ \E w \in 1..MaxThreads : TestFind(w)
  \/ \E w \in 1..MaxThreads : TestBlock(w)
  \/ TestReport

TestSpec == ArchiveInit /\ [][TestNext]_vars

\* ---------------------------------------------- add: files of many blocks
\* A file large enough for add to cut a transaction into several d blocks
\* is given by the fragments the chunker reads from it, not by its bytes:
\* each fragment but the last has MAX_FRAGMENT bytes (sz>=MAX_FRAGMENT made
\* the cut) and the bytes of none are predicted (hits 0).  The number b
\* names the bytes of a fragment: fragments of the same name and size have
\* the same bytes.  LargeTail is the size of the last fragment.
LargeTail == 100000

LargeFiles == {<<1, 2, 3, 4, 5>>, <<1, 2, 3, 4, 6>>, <<7>>}

\* the bytes of fragment fj (from 0) of the large file F, stood for by a
\* run of its name
LargeBytes(F, fj) ==
  Run(F[fj + 1], IF fj + 1 = Len(F) THEN LargeTail ELSE MAX_FRAGMENT)

\* the size of F
LargeSize(F) == (Len(F) - 1) * MAX_FRAGMENT + LargeTail

\* "Read a fragment" of the large file F
LargeFragment(L, p, F) ==
  Matched(L, p,
          [sz |-> ContentLen(LargeBytes(F, L.fj)), hits |-> 0,
           eof |-> L.fj + 1 = Len(F)],
          LargeBytes(F, L.fj), SHA1(LargeBytes(F, L.fj)),
          Find(L.ht, SHA1(LargeBytes(F, L.fj))))

\* while (fi<vf.size() || frags>0), the files being large
RECURSIVE AddLargeLoop(_, _, _, _)
AddLargeLoop(L, vf, date, files) ==
  IF ~(L.fi < Len(vf) \/ L.frags > 0) THEN L
  ELSE IF FlushNow(L, vf) THEN AddLargeLoop(Flush(L, date), vf, date, files)
  ELSE AddLargeLoop(LargeFragment(L, vf[L.fi + 1], files[vf[L.fi + 1]]),
                    vf, date, files)

\* read_args for the large files named: each is found and gets its date
\* and size
LargeArgs(dt, files, fdate) ==
  [p \in DOMAIN dt \cup DOMAIN files |->
     IF p \in DOMAIN files
       THEN [DtAt(dt, p) EXCEPT !.edate = fdate,
                                !.esize = LargeSize(files[p]),
                                !.eattr = 0, !.written = 0]
       ELSE dt[p]]

AddLargeListed(r, dt, vf, date, files) ==
  IF Len(vf) = 0
    THEN /\ last' = "not updated"
         /\ UNCHANGED <<arc, cmd, jd, pending>>
    ELSE AddLooped(r, date, vf, FALSE,
                   AddLargeLoop(LoopInit(r.ht, dt), vf, date, files))

AddLargeScanned(r, dt, now, files) ==
  AddLargeListed(r, dt, SortFiles({p \in DOMAIN dt : ToAdd(dt[p], FALSE)}),
                 TransactionDate(r.ver, now), files)

\* add of large files, from its start to the end of the loop that passes
\* the d blocks to the pipeline
AddLarge(files, fdate, now) ==
  /\ cmd = "idle"
  /\ ncmd < MaxCommands
  /\ AddLargeScanned(read_archive(arc, DefaultVersion),
                     LargeArgs(read_archive(arc, DefaultVersion).dt, files,
                               fdate),
                     now, files)
  /\ ncmd' = ncmd + 1
  /\ UNCHANGED <<tree, hist, edited>>
  /\ UNCHANGED <<restVars, extractVars>>

LargeNext ==
  \/ \E S \in SUBSET Paths \ {{}}, fdate \in FileDates, now \in Clock :
       \E files \in [S -> LargeFiles] : AddLarge(files, fdate, now)
  \/ AddWriteData
  \/ AddTables
  \/ AddWriteIndex
  \/ AddHeader

LargeSpec == ArchiveInit /\ [][LargeNext]_vars

\* ------------------------------------------- add: the loop and the pipeline
\* The calls of job.write that add makes for the large files given, on an
\* empty archive: the loop runs in the main thread and reads neither the
\* thread count nor anything the other threads write.
LoopJobs(files) ==
  AddLargeLoop(LoopInit(JidacInit.ht,
                        LargeArgs(JidacInit.dt, files, 1)),
               SortFiles(DOMAIN files), 1, files).jobs

\* add of large files with T threads, T in 1..MaxThreads: the pipeline gets
\* the blocks of the loop
PipedInit ==
  /\ qsize \in 1..MaxThreads
  /\ q = [j \in Slots |-> CJInit]
  /\ front = 0
  /\ job = 0
  /\ csize = <<>>
  /\ empty = SemInit(qsize)
  /\ full = [j \in Slots |-> SemInit(0)]
  /\ compressed = [j \in Slots |-> SemInit(0)]
  /\ pc = [t \in {Main, Writer} \cup Workers |->
             IF t = Main THEN "add" ELSE IF t = Writer THEN "w_top"
             ELSE "c_number"]
  /\ jobNumber = [w \in Workers |-> 0]
  /\ wcj = 0
  /\ arg = EndBlock
  /\ k = 0
  /\ input \in {LoopJobs(files) :
                  files \in UNION {[S -> LargeFiles] :
                                     S \in SUBSET Paths \ {{}}}}
  /\ next = 0
  /\ passed = <<>>
  /\ outw = <<>>
  /\ seen = [w \in Workers |-> 0]
  /\ failed = {}
  /\ ArchiveAtRest
  /\ CliAtRest
  /\ LoopAtRest

PipedSpec == PipedInit /\ [][Next]_vars

\* ----------------------------------------- archive: malformed blocks
\* Blocks that read_archive reports, as another writer or a damaged medium
\* may leave them at the end of the archive: a c block whose payload has
\* 4 bytes, an h block with the number 0 and a d block where no jump leads
\* over it (JIDAC blocks of no known shape), and an i block whose record
\* names the fragment ID 0 (reading it throws).
ShortHeader(date, htsize) ==
  [CBlock(date, 0, htsize) EXCEPT !.len = NameLen + 4]

MalformedBlocks(a, date) ==
  LET n == Size(read_archive(a, DefaultVersion).ht)
  IN {ShortHeader(date, n),
      HBlock(date, 0, <<0>>),
      DBlock(date, n, Run(2, 83), <<83>>, 1),
      IBlock(date, 1, <<[date |-> date, path |-> 1, attr |-> 0,
                         ptr |-> <<0>>]>>)}

AppendBlock(b) ==
  /\ cmd = "idle"
  /\ ncmd < MaxCommands
  /\ arc' = Write(arc, b)
  /\ hist' = Push(hist, [arc |-> arc',
                         jidac |-> Jidac(read_archive(arc', DefaultVersion))])
  /\ ncmd' = ncmd + 1
  /\ last' = "foreign"
  /\ UNCHANGED <<tree, cmd, jd, pending, edited>>
  /\ UNCHANGED <<restVars, extractVars>>

\* A command that passes no counter (add, extract, list) reads an archive
\* in which the scan reads through a null pointer: the read may end the
\* process (the other outcome is that the command goes on).
Fault ==
  /\ cmd = "idle"
  /\ ncmd < MaxCommands
  /\ last # "fault"
  /\ read_archive(arc, DefaultVersion).undefined
  /\ last' = "fault"
  /\ UNCHANGED <<arc, tree, cmd, jd, pending, hist, ncmd, edited>>
  /\ UNCHANGED <<restVars, extractVars>>

MalformedNext ==
  \/ \E p \in Paths, f \in Files \cup {NoFile} : Edit(p, f)
  \/ \E now \in Clock : AddBegin("-add", Paths, now, FALSE)
  \/ AddWriteData
  \/ AddTables
  \/ AddWriteIndex
  \/ AddHeader
  \/ \E now \in Clock : \E b \in MalformedBlocks(arc, now) :
       AppendBlock(b)
  \/ Fault

MalformedSpec == ArchiveInit /\ [][MalformedNext]_vars

\* ----------------------------------------- archive: repeated fragment tables
\* h blocks as another writer may leave them at the end of the archive:
\* one entry or two, for a fragment ID that has its entry already or for
\* the next free ID, with the hash and the size of a fragment of one byte 9.
ForeignEntry == [sha1 |-> SHA1(Run(9, 1)), usize |-> 1]

RepeatedTables(a, date) ==
  LET n == Size(read_archive(a, DefaultVersion).ht)
  IN {HBlock(date, id, <<0>> \o is) :
        id \in 1..n, is \in {<<ForeignEntry>>, <<ForeignEntry, ForeignEntry>>}}

RepeatedNext ==
  \/ \E p \in Paths, f \in Files \cup {NoFile} : Edit(p, f)
  \/ \E now \in Clock : AddBegin("-add", Paths, now, FALSE)
  \/ AddWriteData
  \/ AddTables
  \/ AddWriteIndex
  \/ AddHeader
  \/ \E now \in Clock : \E b \in RepeatedTables(arc, now) : AppendBlock(b)

RepeatedSpec == ArchiveInit /\ [][RepeatedNext]_vars

\* --------------------------------------------------- archive: add -fragile
AddFragileListed(r, dt, vf, deletions, date) ==
  IF Len(vf) = 0 /\ deletions = 0
    THEN /\ last' = "not updated"
         /\ UNCHANGED <<arc, cmd, jd, pending>>
    ELSE AddLooped(r, date, vf, FALSE,
                   AddLoop([LoopInit(r.ht, dt) EXCEPT !.fragile = TRUE],
                           vf, date, tree))

AddFragileRead(r, dt, now) ==
  AddFragileListed(r, dt,
                   SortFiles({p \in DOMAIN dt : ToAdd(dt[p], FALSE)}),
                   Cardinality({p \in DOMAIN dt :
                                  dt[p].written = 0 /\ dt[p].edate = 0}),
                   TransactionDate(r.ver, now))

\* add -fragile, from its start to the end of the loop that passes the d
\* blocks to the pipeline: the d blocks get neither trailer nor checksum
AddFragile(files, now) ==
  /\ cmd = "idle"
  /\ ncmd < MaxCommands
  /\ AddFragileRead(read_archive(arc, DefaultVersion),
                    read_args(read_archive(arc, DefaultVersion).dt, files,
                              TRUE, tree),
                    now)
  /\ ncmd' = ncmd + 1
  /\ edited' = FALSE
  /\ UNCHANGED <<tree, hist>>
  /\ UNCHANGED <<restVars, extractVars>>

\* ------------------------------------------------ archive: damaged tables
\* the places of the archive where a block is followed by bytes in which
\* no block is found
Holes(a) == {n \in 1..(Len(a) - 1) : a[n].at + a[n].len # a[n + 1].at}

\* the d blocks of the archive that have a size list
ListedBlocks(a) ==
  {n \in 1..Len(a) : a[n].type = "d" /\ a[n].body.sizes # <<>>}

\* the archive may have this many holes
MaxErased == 2

\* The bytes of the h block m are overwritten: no block is found there.
EraseTable(m) ==
  /\ cmd = "idle"
  /\ m < Len(arc)
  /\ arc[m].type = "h"
  /\ Cardinality(Holes(arc)) < MaxErased
  /\ arc' = SubSeq(arc, 1, m - 1) \o SubSeq(arc, m + 1, Len(arc))
  /\ UNCHANGED <<tree, cmd, jd, pending, hist, ncmd, edited, last>>
  /\ UNCHANGED <<restVars, extractVars>>

\* The d block b is as add writes it: without a trailer (-fragile), or
\* with the sizes of its fragments, its number and their count.
AsWritten(b) ==
  \/ b.body.sizes = <<>> /\ b.body.first = 0 /\ b.body.count = 0
  \/ /\ b.body.first = b.num
     /\ b.body.count = Len(b.body.sizes)
     /\ SumSeq(b.body.sizes, Len(b.body.sizes)) = ContentLen(b.body.data)

\* Trailers that another writer may have given the d block b in place of
\* its own, the size list keeping its length: another first fragment ID,
\* another count, or another size in one place.
Trailer(sizes, first, count) ==
  [sizes |-> sizes, first |-> first, count |-> count]

RecoverTrailers(b) ==
  {Trailer(b.body.sizes, x, b.body.count) : x \in {0, b.num + 1}}
    \cup {Trailer(b.body.sizes, b.num, y) : y \in {0, b.body.count + 1}}
    \cup {Trailer([b.body.sizes EXCEPT ![1] = @ + 1], x, b.body.count) :
            x \in {0, b.num}}

TestTrailers(b) ==
  {Trailer(b.body.sizes, x, b.body.count) : x \in {0, b.num + 1}}
    \cup {Trailer(b.body.sizes, b.num, y) : y \in {0, b.body.count + 1}}
    \cup UNION {{Trailer([b.body.sizes EXCEPT ![j] = v], b.num,
                          b.body.count) :
                    v \in {0, b.num, b.body.count, 1000}
                            \ {b.body.sizes[j]}} :
                 j \in 1..Len(b.body.sizes)}

\* The d block m of the archive has the trailer t, and the checksum of what
\* it holds; every other d block is as add wrote it.
AlterTrailer(m, t) ==
  /\ cmd = "idle"
  /\ m \in ListedBlocks(arc)
  /\ \A i \in 1..Len(arc) :
       arc[i].type = "d" => AsWritten(arc[i]) /\ ~Damaged(arc[i])
  /\ arc' = [arc EXCEPT ![m].body.sizes = t.sizes,
                        ![m].body.first = t.first,
                        ![m].body.count = t.count]
  /\ UNCHANGED <<tree, cmd, jd, pending, hist, ncmd, edited, last>>
  /\ UNCHANGED <<restVars, extractVars>>

\* Damage of the fragment n of d block m, while no trailer is another
\* writer's
DamageData(m, n) ==
  /\ \A i \in 1..Len(arc) : arc[i].type = "d" => AsWritten(arc[i])
  /\ Damage(m, n)

RecoverNext ==
  \/ \E p \in Paths, f \in Files \cup {NoFile} : Edit(p, f)
  \/ \E now \in Clock : AddBegin("-add", Paths, now, FALSE)
  \/ \E now \in Clock : AddFragile(Paths, now)
  \/ AddWriteData
  \/ AddTables
  \/ AddWriteIndex
  \/ AddHeader
  \/ Crash
  \/ \E m \in 1..Len(arc) : EraseTable(m)
  \/ \E m \in 1..Len(arc), n \in 1..3 : DamageData(m, n)
  \/ \E m \in ListedBlocks(arc) : \E t \in RecoverTrailers(arc[m]) :
       AlterTrailer(m, t)

RecoverSpec == ArchiveInit /\ [][RecoverNext]_vars

TrailerNext ==
  \/ \E p \in Paths, f \in Files \cup {NoFile} : Edit(p, f)
  \/ \E now \in Clock : AddBegin("-add", Paths, now, FALSE)
  \/ \E now \in Clock : AddFragile(Paths, now)
  \/ AddWriteData
  \/ AddTables
  \/ AddWriteIndex
  \/ AddHeader
  \/ \E m \in ListedBlocks(arc) : \E t \in TestTrailers(arc[m]) :
       AlterTrailer(m, t)
  \/ TestBegin(1)
  \/ TestFind(1)
  \/ TestBlock(1)
  \/ TestReport

TrailerSpec == ArchiveInit /\ [][TrailerNext]_vars

\* ------------------------------------- extract and test: the worker threads
\* extract or test of the archive that add has left, nothing damaged
WorkNext ==
  \/ \E p \in Paths, f \in Files \cup {NoFile} : Edit(p, f)
  \/ \E now \in Clock : AddBegin("-add", Paths, now, FALSE)
  \/ AddWriteData
  \/ AddTables
  \/ AddWriteIndex
  \/ AddHeader
  \/ \E T \in 1..MaxThreads, garbage \in [1..MaxCommands -> BOOLEAN] :
       ExtractBegin(T, garbage)
  \/ \E w \in 1..MaxThreads : DecompressFind(w)
  \/ \E w \in 1..MaxThreads : DecompressBlock(w)
  \/ \E w \in 1..MaxThreads : DecompressWrite(w)
  \/ ExtractStream
  \/ ExtractReport
  \/ \E T \in 1..MaxThreads : TestBegin(T)
  \/ \E w \in 1..MaxThreads : TestFind(w)
  \/ \E w \in 1..MaxThreads : TestBlock(w)
  \/ TestReport

WorkSpec == ArchiveInit /\ [][WorkNext]_vars

\* ------------------------------------------------------------------ claims
\* What the codec makes of a block as the producer passed it
Compressed(b) ==
  compressBlock([in |-> b.data, filename |-> b.filename, method |-> b.method,
                 type |-> b.type])

ExpectedOut == [i \in 1..Len(passed) |-> Compressed(passed[i])]

\* C1: whatever the thread count and the interleaving, what the writer has
\* appended is at every moment a prefix of the blocks in the order in which
\* the producer passed them to CompressJob::write, and once the writer has
\* returned it is all of them: same blocks, same order, none duplicated or
\* dropped.
C1_ArchiveOrderIsEnqueueOrder ==
  /\ Len(outw) <= Len(passed)
  /\ outw = SubSeq(ExpectedOut, 1, Len(outw))
  /\ (pc[Writer] = "w_done" => outw = ExpectedOut /\ Len(passed) = Len(input))

\* C1 witness: with two slots, more blocks than slots went through and the
\* writer has returned.
C1_Witness ==
  /\ pc[Writer] = "w_done"
  /\ qsize = 2
  /\ Len(outw) = 3

EndSignalled ==
  /\ pc[Main] # "add"
  /\ next = Len(input)
  /\ arg.method = EndOfInput

AllReturned ==
  /\ \A w \in Workers : pc[w] = "c_done"
  /\ pc[Writer] = "w_done"

\* C5: once the producer has signalled the end of input, all workers and the
\* writer eventually return; a worker consumes one end mark, no more; and
\* when the writer returns every data block passed before has been written.
C5_PipelineTerminates ==
  /\ EndSignalled ~> AllReturned
  /\ [](\A w \in Workers : /\ seen[w] <= 1
                           /\ (pc[w] = "c_done" <=> seen[w] = 1))
  /\ [](pc[Writer] = "w_done" =>
          /\ q[wcj].method = EndOfInput /\ wcj = front
          /\ Len(outw) = Len(input)
          /\ outw = ExpectedOut)

\* C5 witness: two workers and the writer have all returned after data went
\* through.
C5_Witness ==
  /\ AllReturned
  /\ qsize = 2
  /\ Len(outw) >= 2

\* The thread that takes the step
Actor(t) == pc'[t] # pc[t]

Placeholders == {n \in 1..Len(arc) : arc[n].type = "c" /\ arc[n].body < 0}

\* what the claim says of the result r of read_archive when block n is the
\* placeholder, before being the result of reading the archive cut there
StopsAt(n, r, before) ==
  /\ r.ret
  /\ r.block_offset = arc[n].at
  /\ Jidac(r) = Jidac(before)
  /\ Jidac(r) = Back(hist).jidac
  /\ r.errors = before.errors

\* C2: whenever the archive holds a c block with payload -1 (add is between
\* the placeholder header and the back-patch, or died there), read_archive
\* returns at that block with the block's offset, and its HT, DT and VER are
\* those it builds from the archive cut before that block, which is the
\* archive as the last completed transaction left it.
C2_IncompleteTransactionIgnored ==
  \A n \in Placeholders :
    /\ SubSeq(arc, 1, n - 1) = Back(hist).arc
    /\ StopsAt(n, read_archive(arc, DefaultVersion),
               read_archive(SubSeq(arc, 1, n - 1), DefaultVersion))

\* add died after a d block and an h block of the second transaction
C2_Witness ==
  /\ cmd = "idle"
  /\ last = "crashed"
  /\ Size(hist) = 2
  /\ \E n \in Placeholders :
       /\ Len(arc) >= n + 2
       /\ arc[n + 1].type = "d"
       /\ arc[n + 2].type = "h"

\* C3: for every version number v, reading the archive with -until v builds
\* the HT, DT and VER that read_archive built from the archive as it was when
\* transaction v had completed, and that archive is the beginning of the
\* present one, so that the d blocks the fragments are extracted from are
\* the same.
C3_SnapshotIsolation ==
  \A v \in 0..(Size(hist) - 1) :
    /\ Len(hist[v].arc) <= Len(arc)
    /\ SubSeq(arc, 1, Len(hist[v].arc)) = hist[v].arc
    /\ Jidac(read_archive(arc, v)) = hist[v].jidac

\* two transactions are complete and some path has a version in each
C3_Witness ==
  /\ cmd = "idle"
  /\ Size(hist) = 3
  /\ \E p \in DOMAIN hist[2].jidac.dt :
       /\ Len(hist[2].jidac.dt[p].dtv) = 2
       /\ Len(hist[1].jidac.dt[p].dtv) = 1

\* add has left the fragment loop and no d block is written yet
Looped == cmd = "add_data" /\ jd.csize = <<>>

\* the string a hash stands for
Hashed(sh) == sh[1]

\* the bytes of fragment i (from 1) of the external file p
FragmentBytes(p, i) ==
  Slice(tree[p].data, Fragments[tree[p].data][i].pos,
        Fragments[tree[p].data][i].sz)

\* the bytes of the fragments first..first+count-1 of ht
RECURSIVE Stored(_, _, _)
Stored(ht, first, count) ==
  IF count = 0 THEN <<>>
  ELSE Cat(Hashed(ht[first].sha1), Stored(ht, first + 1, count - 1))

\* the d blocks bs hold the fragments from ID first to the end of ht, each
\* once and in order
RECURSIVE StoredOnce(_, _, _)
StoredOnce(bs, ht, first) ==
  IF bs = <<>> THEN first = Size(ht)
  ELSE /\ bs[1].type = "d"
       /\ bs[1].body.first = first
       /\ bs[1].body.count >= 1
       /\ first + bs[1].body.count <= Size(ht)
       /\ bs[1].body.data = Stored(ht, first, bs[1].body.count)
       /\ StoredOnce(Tail(bs), ht, first + bs[1].body.count)

\* C8: when add leaves the fragment loop, (1) the entries of HT read from
\* the archive are as read; (2) every fragment of every file added points
\* to the lowest ID whose hash and size are the fragment's; (3) no entry
\* made by this add has the hash of an earlier entry of known size, and
\* each is pointed to by a file added; (4) the d blocks passed to the
\* pipeline hold the bytes of the entries made by this add, each once, in
\* the order of their IDs.
C8_Deduplication ==
  Looped =>
    /\ jd.htsize = Size(Back(hist).jidac.ht)
    /\ \A i \in 0..(jd.htsize - 1) : jd.ht[i] = Back(hist).jidac.ht[i]
    /\ \A n \in 1..Len(jd.vf) :
         /\ Len(jd.dt[jd.vf[n]].eptr) = Len(Fragments[tree[jd.vf[n]].data])
         /\ \A i \in 1..Len(jd.dt[jd.vf[n]].eptr) :
              /\ jd.dt[jd.vf[n]].eptr[i] \in 1..(Size(jd.ht) - 1)
              /\ jd.ht[jd.dt[jd.vf[n]].eptr[i]].sha1
                   = SHA1(FragmentBytes(jd.vf[n], i))
              /\ jd.ht[jd.dt[jd.vf[n]].eptr[i]].usize
                   = ContentLen(FragmentBytes(jd.vf[n], i))
              /\ \A j \in 1..(jd.dt[jd.vf[n]].eptr[i] - 1) :
                   jd.ht[j].usize >= 0
                     => jd.ht[j].sha1 # SHA1(FragmentBytes(jd.vf[n], i))
    /\ \A i \in jd.htsize..(Size(jd.ht) - 1) :
         /\ \A j \in 1..(i - 1) :
              jd.ht[j].usize >= 0 => jd.ht[j].sha1 # jd.ht[i].sha1
         /\ \E n \in 1..Len(jd.vf) :
              \E m \in 1..Len(jd.dt[jd.vf[n]].eptr) :
                jd.dt[jd.vf[n]].eptr[m] = i
    /\ StoredOnce(pending, jd.ht, jd.htsize)

\* a file added has a new fragment, a second fragment equal to it and a
\* fragment known from an earlier snapshot
C8_Witness ==
  /\ Looped
  /\ \E n \in 1..Len(jd.vf) :
       \E i, j, m \in 1..Len(jd.dt[jd.vf[n]].eptr) :
         /\ i < j
         /\ jd.dt[jd.vf[n]].eptr[i] = jd.dt[jd.vf[n]].eptr[j]
         /\ jd.dt[jd.vf[n]].eptr[i] >= jd.htsize
         /\ jd.dt[jd.vf[n]].eptr[m] < jd.htsize

\* the bytes of a file version as its fragment list ptr puts them together
RECURSIVE Archived(_, _)
Archived(ht, ptr) ==
  IF ptr = <<>> THEN <<>>
  ELSE Cat(Hashed(ht[ptr[1]].sha1), Archived(ht, Tail(ptr)))

\* the archived paths whose latest version begins with the bytes c
BeginWith(c) ==
  {x \in DOMAIN jd.dt :
     /\ Live(jd.dt[x])
     /\ Take(Archived(jd.ht, jd.dt[x].dtv[Len(jd.dt[x].dtv)].ptr),
             ContentLen(c)) = c}

\* add has left the fragment loop with one file to add, which was never in
\* the archive and whose content is the beginning of an archived file
PrefixAdded ==
  /\ Looped
  /\ Len(jd.vf) = 1
  /\ jd.dt[jd.vf[1]].dtv = <<>>
  /\ BeginWith(tree[jd.vf[1]].data) # {}

\* C9 as stated, of a new file that is not empty: such an add makes no
\* fragment and passes no d block to the pipeline.
C9_PrefixWritesNoData ==
  (PrefixAdded /\ tree[jd.vf[1]].data # <<>>)
    => Size(jd.ht) = jd.htsize /\ pending = <<>>

\* C9, amended: every fragment of the new file but the last is found in the
\* index, with the ID the archived file has in that place; the last, cut by
\* the end of the file, is found if and only if the archive holds a
\* fragment of these bytes, and else is the one fragment of the one d block
\* written.
C9_PrefixFragmentsFound ==
  PrefixAdded =>
    /\ \A i \in 1..(Len(jd.dt[jd.vf[1]].eptr) - 1) :
         /\ jd.dt[jd.vf[1]].eptr[i] \in 1..(jd.htsize - 1)
         /\ \A x \in BeginWith(tree[jd.vf[1]].data) :
              jd.dt[x].dtv[Len(jd.dt[x].dtv)].ptr[i] = jd.dt[jd.vf[1]].eptr[i]
    /\ Len(jd.dt[jd.vf[1]].eptr) = Len(Fragments[tree[jd.vf[1]].data])
    /\ IF \E j \in 1..(jd.htsize - 1) :
            /\ jd.ht[j].usize >= 0
            /\ jd.ht[j].sha1
                 = SHA1(FragmentBytes(jd.vf[1], Len(jd.dt[jd.vf[1]].eptr)))
         THEN /\ Size(jd.ht) = jd.htsize
              /\ pending = <<>>
              /\ jd.dt[jd.vf[1]].eptr[Len(jd.dt[jd.vf[1]].eptr)] < jd.htsize
         ELSE /\ Size(jd.ht) = jd.htsize + 1
              /\ Len(pending) = 1
              /\ pending[1].body.data
                   = FragmentBytes(jd.vf[1], Len(jd.dt[jd.vf[1]].eptr))
              /\ jd.dt[jd.vf[1]].eptr[Len(jd.dt[jd.vf[1]].eptr)] = jd.htsize

\* the new file has a fragment that was found and a last fragment that was
\* not
C9_Witness ==
  /\ PrefixAdded
  /\ Len(jd.dt[jd.vf[1]].eptr) >= 2
  /\ jd.dt[jd.vf[1]].eptr[1] < jd.htsize
  /\ jd.dt[jd.vf[1]].eptr[Len(jd.dt[jd.vf[1]].eptr)] = jd.htsize

\* every path is in the external tree if and only if its latest archived
\* version is a file, and then with the date archived
TreeUnchanged ==
  \A p \in Paths :
    IF tree[p] = NoFile
      THEN ~(p \in DOMAIN Back(hist).jidac.dt /\ Live(Back(hist).jidac.dt[p]))
      ELSE /\ p \in DOMAIN Back(hist).jidac.dt
           /\ Live(Back(hist).jidac.dt[p])
           /\ Back(hist).jidac.dt[p].dtv[Len(Back(hist).jidac.dt[p].dtv)].date
                = tree[p].date

\* C10: add of all paths, run when the tree is as archived, returns with
\* "not updated": the archive file is as it was, byte for byte, so there is
\* no new index record and no d block, and a reader finds the versions of
\* every path as they were.
C10_IdempotentAdd ==
  [][(TreeUnchanged /\ \E now \in Clock : AddBegin("-add", Paths, now, FALSE))
       => /\ arc' = arc
          /\ hist' = hist
          /\ cmd' = "idle"
          /\ last' = "not updated"
          /\ Jidac(read_archive(arc', DefaultVersion)).dt
               = Back(hist).jidac.dt]_vars

\* a second add has returned with "not updated" on a tree with a file in it
C10_Witness ==
  /\ last = "not updated"
  /\ ncmd = 2
  /\ Size(hist) = 2
  /\ TreeUnchanged
  /\ \E p \in Paths : tree[p] # NoFile

\* ------------------------------------------------- claims on extraction
\* C4: when one add to an empty archive has completed, the tree and the
\* archive are as the add left them and extract has run into an empty
\* directory, then extract returned 0, the directory holds the files of
\* the tree and no other, each with the bytes it has in the tree, and the
\* fragments of each file, put one behind the other in the order of its
\* fragment list, are the file.
C4_RoundTrip ==
  (/\ cmd = "extracted"
   /\ ncmd = 1
   /\ ~edited
   /\ Size(hist) = 2
   /\ arc = hist[1].arc)
    => /\ eret = 0
       /\ \A p \in Paths :
            IF tree[p] = NoFile THEN outdir[p] = NoFile
            ELSE /\ outdir[p] # NoFile
                 /\ outdir[p].data = tree[p].data
                 /\ Archived(ejob.ht, ejob.dt[p].dtv[1].ptr) = tree[p].data

\* the block of the job that holds fragment j
BlockOf(j) ==
  CHOOSE n \in 1..Len(ejob.block) :
    /\ ejob.block[n].start <= j
    /\ n = Len(ejob.block) \/ j < ejob.block[n + 1].start

\* block n of the job is to be decompressed and does not decompress or
\* verify
Fails(n) ==
  /\ ejob.block[n].size > 0
  /\ Decompress(arc, ejob.ht, ejob.block[n],
                findBlock(arc, ejob.block[n].offset)).thrown

\* the write offset of pointer i of a fragment list
RECURSIVE OffsetOf(_, _, _)
OffsetOf(ht, ptr, i) ==
  IF i = 1 THEN 0 ELSE OffsetOf(ht, ptr, i - 1) + ht[ptr[i - 1]].usize

\* C7: when extract has run and a block failed, extract returned 1, and
\* of every file it was to extract every fragment in a block that did not
\* fail is in the file at its offset, and the count of fragments written
\* is the count of these.
C7_GoodBlocksWritten ==
  (/\ cmd = "extracted"
   /\ ejob # NoJidac
   /\ \E n \in 1..Len(ejob.block) : Fails(n))
    => /\ eret = 1
       /\ \A p \in DOMAIN ejob.dt :
            (Live(ejob.dt[p]) /\ ejob.dt[p].written >= 0) =>
              /\ \A i \in 1..Len(ejob.dt[p].dtv[Len(ejob.dt[p].dtv)].ptr) :
                   ~Fails(BlockOf(
                       ejob.dt[p].dtv[Len(ejob.dt[p].dtv)].ptr[i])) =>
                     /\ outdir[p] # NoFile
                     /\ Slice(outdir[p].data,
                              OffsetOf(ejob.ht,
                                ejob.dt[p].dtv[Len(ejob.dt[p].dtv)].ptr, i),
                              ejob.ht[ejob.dt[p].dtv[Len(ejob.dt[p].dtv)]
                                        .ptr[i]].usize)
                          = Hashed(ejob.ht[ejob.dt[p].dtv[Len(ejob.dt[p].dtv)]
                                             .ptr[i]].sha1)
              /\ ejob.dt[p].written =
                   Cardinality(
                     {i \in 1..Len(ejob.dt[p].dtv[Len(ejob.dt[p].dtv)].ptr) :
                        ~Fails(BlockOf(
                           ejob.dt[p].dtv[Len(ejob.dt[p].dtv)].ptr[i]))})


\* ------------------------------------------------- claims on the journal
\* the fragment locator law for the fragment table ht read from archive a:
\* fragment k has the offset of a d block that begins with it, or the
\* negated distance to the first fragment of the d block that holds it
LocatorLaw(a, ht) ==
  \A x \in 1..(Size(ht) - 1) :
    LET first == IF ht[x].csize > 0 THEN x ELSE x + ht[x].csize
    IN /\ ht[x].csize # 0
       /\ first >= 1
       /\ first <= x
       /\ ht[first].csize > 0
       /\ \E n \in 1..Len(a) :
            /\ a[n].type = "d"
            /\ a[n].at = ht[first].csize
            /\ a[n].body.first = first
            /\ x < first + a[n].body.count

\* C12: in every state of the archive (between commands, while add writes,
\* after add died) the fragment table that read_archive builds obeys the
\* fragment locator law.
C12_FragmentLocatorLaw ==
  LocatorLaw(arc, read_archive(arc, DefaultVersion).ht)

\* two transactions are complete, each with a d block, and a block holds
\* more than one fragment
C12_Witness ==
  /\ cmd = "idle"
  /\ Size(hist) = 3
  /\ Cardinality({n \in 1..Len(arc) : arc[n].type = "d"}) = 2
  /\ \E x \in DOMAIN Back(hist).jidac.ht : Back(hist).jidac.ht[x].csize < 0


\* the offset before which add leaves the archive as it is: what
\* read_archive returns when the command starts, header_pos while it runs
Frozen ==
  IF cmd = "idle" THEN read_archive(arc, DefaultVersion).block_offset
  ELSE jd.header_pos

\* the number of blocks of the archive that end at or before offset off
BlocksBefore(off) ==
  Cardinality({n \in 1..Len(arc) : arc[n].at + arc[n].len <= off})

\* A step writes one block behind the first n blocks of the archive, at the
\* end of the file.
Appends(n) ==
  /\ Len(arc') = n + 1
  /\ SubSeq(arc', 1, n) = SubSeq(arc, 1, n)
  /\ arc'[n + 1].at = ArchiveSize(SubSeq(arc, 1, n))

\* A step writes the c header at offset off again, in the same bytes, and
\* nothing else.
Rewrites(off) ==
  /\ Len(arc') = Len(arc)
  /\ \E n \in 1..Len(arc) :
       /\ \A m \in 1..Len(arc) : m # n => arc'[m] = arc[m]
       /\ arc[n].type = "c"
       /\ arc[n].body = 0 - 1
       /\ arc[n].at = off
       /\ arc'[n].body >= 0
       /\ arc'[n] = [arc[n] EXCEPT !.body = arc'[n].body]

\* C14: a step of add that changes the archive leaves every block that
\* ends at or before the offset read_archive returned as it is; the step
\* that begins the transaction cuts the file there and writes the c header
\* with payload -1 at its end, every later step writes one block at the end
\* of the file, but for the one that writes the c header again, in the
\* bytes it has.
C14_AppendOnly ==
  [][arc' # arc =>
       /\ BlocksBefore(Frozen) <= Len(arc')
       /\ SubSeq(arc', 1, BlocksBefore(Frozen))
            = SubSeq(arc, 1, BlocksBefore(Frozen))
       /\ IF cmd = "idle"
            THEN /\ Appends(BlocksBefore(Frozen))
                 /\ arc'[Len(arc')].type = "c"
                 /\ arc'[Len(arc')].body = 0 - 1
                 /\ arc'[Len(arc')].at = Frozen
            ELSE \/ Appends(Len(arc)) /\ arc'[Len(arc')].type # "c"
                 \/ Rewrites(Frozen)]_vars

\* the second transaction is complete: it left the first as it was and
\* wrote d, h and i blocks behind it
C14_Witness ==
  /\ cmd = "idle"
  /\ last = "updated"
  /\ Size(hist) = 3
  /\ Len(arc) >= Len(hist[1].arc) + 4
  /\ SubSeq(arc, 1, Len(hist[1].arc)) = hist[1].arc

\* the blocks of archive a that follow the c block n in its transaction
Behind(a, n) ==
  {m \in (n + 1)..Len(a) :
     \A x \in (n + 1)..m : a[x].type # "c"}

\* the sum of the lengths of the blocks S of archive a
RECURSIVE LenSum(_, _)
LenSum(a, S) ==
  IF S = {} THEN 0
  ELSE LET n == CHOOSE x \in S : TRUE
       IN a[n].len + LenSum(a, S \ {n})

\* the c block n of archive a has the payload that leads a reader to the
\* first h block of its transaction: the d blocks of the transaction come
\* first, the payload is the sum of their lengths, and findBlock from the
\* end of the header plus the payload is at the first h block, or, without
\* an h block, behind the header
Patched(a, n) ==
  LET D == {m \in Behind(a, n) : a[m].type = "d"}
      H == {m \in Behind(a, n) : a[m].type = "h"}
      pos == a[n].at + a[n].len + a[n].body
  IN /\ a[n].body = LenSum(a, D)
     /\ \A m \in D : \A x \in Behind(a, n) \ D : m < x
     /\ IF H = {} THEN D = {} /\ pos = a[n].at + a[n].len
        ELSE /\ findBlock(a, pos) \in H
             /\ \A m \in H : findBlock(a, pos) <= m
             /\ a[findBlock(a, pos)].at = pos

\* C15: the step that gives a c block its payload finds the blocks of the
\* transaction in the archive and leaves them as they are, later steps
\* add none, and the payload is the byte count of the d blocks, which lie
\* between the header and the first h block.
C15_HeaderPatchedLast ==
  [][/\ \A n \in 1..Len(arc) :
          (/\ arc[n].type = "c"
           /\ arc[n].body < 0
           /\ n <= Len(arc')
           /\ arc'[n].type = "c"
           /\ arc'[n].body >= 0)
            => /\ Len(arc') = Len(arc)
               /\ \A m \in 1..Len(arc) : m # n => arc'[m] = arc[m]
               /\ Behind(arc', n) = (n + 1)..Len(arc')
               /\ Patched(arc', n)
     /\ (arc' # arc /\ arc # <<>> /\ Placeholders = {})
          => /\ arc'[Len(arc')].type = "c"
             /\ arc'[Len(arc')].body < 0
             /\ \A n \in 1..(Len(arc') - 1) : arc'[n] = arc[n]]_vars

\* a transaction with a d block of more than one fragment is complete
\* behind another
C15_Witness ==
  /\ cmd = "idle"
  /\ last = "updated"
  /\ Size(hist) = 3
  /\ \E n \in 1..Len(arc) :
       /\ arc[n].type = "c"
       /\ n > 1
       /\ arc[n].body > 0
       /\ \E m \in Behind(arc, n) :
            arc[m].type = "d" /\ arc[m].body.count > 1


\* the dates of a version list are strictly increasing
Increasing(ver) ==
  \A i \in DOMAIN ver : \A j \in DOMAIN ver :
    i < j => ver[i].date < ver[j].date

\* C11: in every state of the archive, whatever the clock showed to the
\* commands that wrote it (with and without -until), the version list
\* read_archive builds has strictly increasing dates.
C11_MonotoneDates == Increasing(read_archive(arc, DefaultVersion).ver)

\* the second of two transactions began when the clock showed no more than
\* the date of the first, and has the date one second behind it
C11_Witness ==
  /\ cmd = "idle"
  /\ Size(hist) = 3
  /\ Back(hist).jidac.ver[1].date = 3
  /\ Back(hist).jidac.ver[2].date = 4


\* a step in which add or delete begins with -until version
Until(version) ==
  \E now \in AnyClock :
    \/ AddUntil("-add", Paths, now, FALSE, version)
    \/ \E p \in Paths : AddUntil("-delete", {p}, now, FALSE, version)

\* the number of the last transaction that -until version keeps
Kept(version) == Min(version, Size(hist) - 1)

\* C19: when add or delete begins with -until 1, a reader of the archive
\* finds from then on what it found when transaction 1 had completed and
\* no transaction that followed it; and when add or delete completes a
\* transaction, every transaction the command read is read from the
\* archive as it was before and the new one is the only one behind them.
C19_UntilTruncates ==
  [][/\ Until(1)
          => Jidac(read_archive(arc', DefaultVersion)) = hist[Kept(1)].jidac
     /\ (cmd = "add_index" /\ cmd' = "idle" /\ last' = "updated")
          => /\ Size(read_archive(arc', DefaultVersion).ver)
                  = Size(jd.ver) + 1
             /\ \A v \in 0..(Size(jd.ver) - 1) :
                  Jidac(read_archive(arc', v)) = hist[v].jidac]_vars


\* every version of every path in the file table d0 is in d1, unchanged
\* and at its place
Extends(d0, d1) ==
  \A p \in DOMAIN d0 :
    /\ p \in DOMAIN d1
    /\ Len(d1[p].dtv) >= Len(d0[p].dtv)
    /\ SubSeq(d1[p].dtv, 1, Len(d0[p].dtv)) = d0[p].dtv

\* From the file table d0 to d1 a path gets at most one version; a version
\* with date 0 only behind a live one; and one with date 0 when the command
\* (its file table is dt) marked the path for deletion and it was live.
AppendsOne(d0, d1, dt) ==
  \A p \in DOMAIN d1 :
    LET old == DtAt(d0, p)
        new == d1[p].dtv
    IN /\ Len(new) <= Len(old.dtv) + 1
       /\ (Len(new) = Len(old.dtv) + 1 /\ new[Len(new)].date = 0)
            => Live(old)
       /\ (p \in DOMAIN dt /\ dt[p].written = 0 /\ dt[p].edate = 0
             /\ Live(old))
            => (Len(new) = Len(old.dtv) + 1 /\ new[Len(new)].date = 0)

\* path p of the file table dt read in full has a version of a transaction
\* up to x, and the last of them has a date
LiveAt(dt, p, x) ==
  LET S == {i \in 1..Len(dt[p].dtv) : dt[p].dtv[i].version <= x}
  IN S # {} /\ dt[p].dtv[CHOOSE i \in S : \A j \in S : j <= i].date # 0

\* the file table dx read with -until x shows as live the paths that dt,
\* read in full, has live at x
LiveSame(dx, dt, x) ==
  \A p \in DOMAIN dt :
    (p \in DOMAIN dx /\ Live(dx[p])) <=> LiveAt(dt, p, x)

\* the same for every x up to the last transaction of r, read in full from
\* archive a
LiveUntil(a, r) ==
  \A x \in 0..(Size(r.ver) - 1) : LiveSame(read_archive(a, x).dt, r.dt, x)

\* what C20 says of a step that changes the archive, from the file table
\* d0 to what a reader makes of the archive then (r1)
HistoryLaw(d0, r1) ==
  /\ Extends(d0, r1.dt)
  /\ (cmd' = "idle" /\ last' = "updated")
       => /\ AppendsOne(d0, r1.dt, jd.dt)
          /\ LiveUntil(arc', r1)

HistoryKept ==
  HistoryLaw(read_archive(arc, DefaultVersion).dt,
             read_archive(arc', DefaultVersion))

NoUntil ==
  \/ cmd # "idle"
  \/ \E now \in AnyClock :
       \/ AddUntil("-add", Paths, now, FALSE, DefaultVersion)
       \/ \E p \in Paths :
            AddUntil("-delete", {p}, now, FALSE, DefaultVersion)

IsNumber(a) == a.e = 0 /\ a.d <= 9999999

\* the argument is a date of 8, 10, 12 or 14 digits
IsDate(a) ==
  /\ a.d >= 19000101 /\ a.d <= 29991231
  /\ a.e = 2 => a.rest <= 23
  /\ a.e = 4 => (a.rest \div 100 <= 23 /\ a.rest % 100 <= 59)
  /\ a.e = 6 => /\ a.rest \div 10000 <= 23
                /\ (a.rest \div 100) % 100 <= 59
                /\ a.rest % 100 <= 59

\* a date with its missing digits filled in by 235959, 5959 or 59
Completed(a) ==
  Digits(a.d, a.rest * (10 ^ (6 - a.e))
                + (CASE a.e = 0 -> 235959 [] a.e = 2 -> 5959
                     [] a.e = 4 -> 59 [] OTHER -> 0), 6)

NotLater(dates, limit) ==
  LET Test(x) == WLeq(x, limit) IN SelectSeq(dates, Test)

\* C18: under -until N read_archive keeps exactly snapshots 1..N; under
\* -until with a date it keeps exactly the snapshots dated not later than
\* the date completed with 235959, 5959 or 59; a number or a date is not
\* refused; -until 20250101 leaves out a snapshot dated 20250102000000 and
\* -until 20250103 keeps it.
C18_UntilSelects ==
  /\ (until.pc = "done" /\ IsNumber(until.arg)) =>
       until.ver = SubSeq(until.dates, 1, Min(until.arg.d, Len(until.dates)))
  /\ (until.pc = "done" /\ IsDate(until.arg)) =>
       until.ver = NotLater(until.dates, Completed(until.arg))
  /\ (IsNumber(until.arg) \/ IsDate(until.arg)) => until.pc # "exit"
  /\ (until.pc = "done" /\ until.arg = Argument(20250101, 0, 0)) =>
       \A i \in 1..Len(until.ver) : until.ver[i] # Digits(20250102, 0, 6)
  /\ ( /\ until.pc = "done"
       /\ until.arg = Argument(20250103, 0, 0)
       /\ \E i \in 1..Len(until.dates) :
             until.dates[i] = Digits(20250102, 0, 6) ) =>
       \E i \in 1..Len(until.ver) : until.ver[i] = Digits(20250102, 0, 6)

C18_Witness ==
  /\ until.pc = "done"
  /\ until.arg = Argument(20250101, 0, 0)
  /\ Len(until.ver) >= 1
  /\ until.ver[Len(until.ver)] = Digits(20250101, 235959, 6)
  /\ \E i \in 1..Len(until.dates) : until.dates[i] = Digits(20250102, 0, 6)

\* ------------------------------------------------ claims on fragment IDs
\* C13: after read_archive every fragment ID held in the pointer list of a
\* file version lies in [1, ht.size); an index record with ID 0 or with an
\* ID of ht.size + 2^24 or more is refused and not stored.
C13_FragmentIDsInRange ==
  LET r == read_archive(arc, DefaultVersion)
  IN \A p \in DOMAIN r.dt :
       \A v \in 1..Len(r.dt[p].dtv) :
         \A j \in 1..Len(r.dt[p].dtv[v].ptr) :
           /\ r.dt[p].dtv[v].ptr[j] >= 1
           /\ r.dt[p].dtv[v].ptr[j] < Size(r.ht)

\* ------------------------------------------------ claims on extract's output
\* a file that extract is to write (every live file of the archive: no
\* file arguments are given) is in the output directory
OutputExists ==
  LET r == read_archive(arc, DefaultVersion)
  IN \E p \in DOMAIN r.dt :
       /\ r.dt[p].dtv # <<>>
       /\ r.dt[p].dtv[Len(r.dt[p].dtv)].date # 0
       /\ outdir[p] # NoFile

\* extract starts in this step
ExtractStarts == cmd = "idle" /\ cmd' \in {"extract", "extracted"}

\* C17: without -force, when the output path of a live file to extract
\* exists, extract ends with an error before a thread is started and leaves
\* the output directory as it was; the threads run only when no such path
\* exists.
C17_NoClobber ==
  [][/\ (ExtractStarts /\ OutputExists) =>
          /\ cmd' = "extracted"
          /\ eret' = 2
          /\ ethread' = <<>>
          /\ outdir' = outdir
     /\ (ExtractStarts /\ cmd' = "extract") => ~OutputExists]_vars

C17_Witness ==
  /\ cmd = "extracted"
  /\ eret = 2
  /\ ethread = <<>>
  /\ outdir[1] = NoFile
  /\ outdir[2] = Existing
  /\ Size(read_archive(arc, DefaultVersion).ver) = 3

\* ---------------------------------------------------------- claims on test
\* fragment j of block b, read from the archive, has the checksum the
\* fragment table holds for it
FragmentVerifies(b, j) ==
  LET n == findBlock(arc, b.offset)
      off == SumSizes(ejob.ht, b.start, j)
  IN /\ n # 0
     /\ arc[n].type = "d"
     /\ SHA1(Slice(arc[n].body.data, off, ejob.ht[j].usize)) = ejob.ht[j].sha1

Joined == \A w \in DOMAIN ethread \ {0} : ethread[w].pc = "done"

\* a version of a file points to a fragment that test has not verified
Unverified ==
  \E p \in DOMAIN ejob.dt :
    \E v \in 1..Len(ejob.dt[p].dtv) :
      \E j \in 1..Len(ejob.dt[p].dtv[v].ptr) :
        LET id == ejob.dt[p].dtv[v].ptr[j]
        IN \A i \in 1..Len(ejob.block) :
             ~ /\ ejob.block[i].state = "GOOD"
               /\ id >= ejob.block[i].start
               /\ id < ejob.block[i].start + ejob.block[i].size

Holders(i) ==
  {w \in DOMAIN ethread \ {0} :
     ethread[w].pc \in {"decompress", "write", "test"} /\ ethread[w].i = i}

Running == cmd \in {"extract", "test"}

\* C30: in extract and in test a block goes from READY to WORKING once, in
\* a step of the one worker thread that then holds it, and never back; in
\* extract no worker thread holds a streaming block, and the main thread
\* goes through the blocks in increasing order and handles no block that
\* is not streaming.
C30_OneWorkerPerBlock ==
  [][(Running /\ cmd' = cmd) =>
       \A i \in 1..Len(ejob.block) :
         /\ Cardinality(Holders(i)) <= 1
         /\ ejob.block[i].state # "READY" => ejob'.block[i].state # "READY"
         /\ (ejob.block[i].state = "READY"
               /\ ejob'.block[i].state # "READY") =>
              /\ ejob'.block[i].state = "WORKING"
              /\ Holders(i) = {}
              /\ \E w \in DOMAIN ethread \ {0} :
                   /\ ethread[w].pc = "find"
                   /\ ethread[w].i = i
                   /\ ethread'[w].pc \in {"decompress", "test"}
                   /\ \A x \in DOMAIN ethread \ {w} : ethread'[x] = ethread[x]
         /\ (cmd = "extract" /\ Holders(i) # {}) => ~ejob.block[i].streaming
         /\ (cmd = "extract" /\ ethread'[0] # ethread[0]
               /\ ethread[0].pc = "stream" /\ ethread[0].i = i) =>
              /\ ethread'[0].i = i + 1
              /\ ejob' # ejob => ejob.block[i].streaming]_vars

C30_Witness ==
  /\ cmd = "extract"
  /\ Len(ejob.block) = 2
  /\ ejob.block[1].streaming
  /\ ~ejob.block[2].streaming
  /\ ejob.ht[ejob.block[1].start].csize = EXTRACTED
  /\ Holders(2) = {2}
  /\ ethread[1].pc = "done"

LastPtr(p) == ejob.dt[p].dtv[Len(ejob.dt[p].dtv)].ptr

Transaction ==
  SubSeq(arc, findBlock(arc, jd.header_pos) + 1, Len(arc))

OfType(a, t) == SelectSeq(a, LAMBDA b : b.type = t)

\* the count of fragments in the first n of the d blocks ds
RECURSIVE Counted(_, _)
Counted(ds, n) ==
  IF n = 0 THEN 0 ELSE Counted(ds, n - 1) + ds[n].body.count

\* d blocks come first, then h blocks, then i blocks
Rank(b) == IF b.type = "d" THEN 1 ELSE IF b.type = "h" THEN 2 ELSE 3

Adding == cmd \in {"add_data", "add_index"}

\* C29: while add writes a transaction that began with htsize fragment IDs
\* in use, the d blocks written so far hold the new IDs from htsize on
\* without a gap, each a contiguous range with the sizes the table has for
\* them; the h blocks written so far are, in the same order, one for each
\* d block, with the d block's first ID, its compressed size and its
\* fragments; no h block follows an i block and no d block follows an h
\* block; and once the tables are written (an i block is there, or nothing
\* is left to write) there is an h block for every d block and every new
\* ID is in a d block.
C29_DenseIDsAndTables ==
  Adding =>
    LET ds == OfType(Transaction, "d")
        hs == OfType(Transaction, "h")
        tabled == \/ OfType(Transaction, "i") # <<>>
                  \/ cmd = "add_index" /\ pending = <<>>
    IN /\ \A i \in 1..Len(Transaction), j \in 1..Len(Transaction) :
            i < j => Rank(Transaction[i]) <= Rank(Transaction[j])
       /\ \A n \in 1..Len(ds) :
            /\ ds[n].num = jd.htsize + Counted(ds, n - 1)
            /\ ds[n].body.first = ds[n].num
            /\ ds[n].body.count = Len(ds[n].body.sizes)
            /\ ds[n].body.count > 0
            /\ ds[n].num + ds[n].body.count <= Size(jd.ht)
            /\ \A i \in 1..ds[n].body.count :
                 ds[n].body.sizes[i] = jd.ht[ds[n].num + i - 1].usize
       /\ Len(hs) <= Len(ds)
       /\ \A n \in 1..Len(hs) :
            /\ hs[n].num = ds[n].num
            /\ hs[n].body[1] = ds[n].len
            /\ Len(hs[n].body) = 1 + ds[n].body.count
            /\ \A i \in 1..ds[n].body.count :
                 /\ hs[n].body[i + 1].sha1 = jd.ht[ds[n].num + i - 1].sha1
                 /\ hs[n].body[i + 1].usize = jd.ht[ds[n].num + i - 1].usize
       /\ tabled =>
            /\ Len(hs) = Len(ds)
            /\ jd.htsize + Counted(ds, Len(ds)) = Size(jd.ht)

\* a transaction of two d blocks, the first of several fragments, has its
\* two h blocks and an i block
C29_Witness ==
  /\ cmd = "add_index"
  /\ Len(OfType(Transaction, "d")) = 2
  /\ OfType(Transaction, "d")[1].body.count > 1
  /\ Len(OfType(Transaction, "h")) = 2
  /\ OfType(Transaction, "i") # <<>>
  /\ jd.htsize > 1

\* -------------------------------------------- claims on the error counter
\* C25: read_archive with a counter leaves in it the number of malformed
\* blocks it reported (blocks skipped because reading them threw, JIDAC
\* blocks of no known shape, c blocks whose payload is not 8 bytes), and
\* read_archive without a counter does nothing undefined and does not end
\* the process.
C25_EveryEventCounted ==
  /\ read_archive_errors(arc, DefaultVersion).errors
       = read_archive_errors(arc, DefaultVersion).logged
  /\ ~read_archive(arc, DefaultVersion).undefined
  /\ last # "fault"

\* ------------------------------------------- claims on the recovery pass
\* the -until versions looked at: each version of the archive, and none
Versions == 1..MaxCommands \cup {DefaultVersion}

\* C28: read_archive never returns with pass=ERR, that is with an ID gap,
\* an h block out of order or an index record of unknown fragments seen and
\* the RECOVER pass not made, whatever the -until version and also when the
\* archive ends in an incomplete transaction; and it never scans the
\* archive more than twice.
C28_RecoveryRuns ==
  \A v \in Versions :
    /\ read_archive(arc, v).pass # "ERR"
    /\ read_archive(arc, v).passes <= 2



\* the transactions that stored an entry for fragment j when they were
\* completed, and the entry the first of them stored
StoredIn(j) ==
  {v \in 0..(Size(hist) - 1) :
     /\ j < Size(hist[v].jidac.ht)
     /\ hist[v].jidac.ht[j].csize # HT_BAD
     /\ hist[v].jidac.ht[j].usize >= 0}

StoredEntry(j) ==
  hist[CHOOSE v \in StoredIn(j) : \A w \in StoredIn(j) : v <= w].jidac.ht[j]

\* the fragments whose h entries are missing from the archive: the NORMAL
\* pass leaves them without locator
MissingEntries ==
  LET r == read_archive(arc, DefaultVersion)
      ht == IF r.pass = "RECOVER" THEN r.scanned ELSE r.ht
  IN {j \in 1..(Size(ht) - 1) : ht[j].csize = HT_BAD /\ StoredIn(j) # {}}

\* the d block of the archive that contains fragment j (0: none)
Containing(j) ==
  LET ds == {m \in 1..Len(arc) : arc[m].type = "d" /\ arc[m].num <= j}
  IN IF ds = {} THEN 0
     ELSE CHOOSE m \in ds : \A x \in ds : arc[x].num <= arc[m].num

\* C21: in an archive whose d blocks have the trailers add wrote, a
\* fragment whose h entry is missing from the archive has, when
\* read_archive returns, the size, the hash and the locator that add stored
\* for it if and only if the d block that contains it is undamaged and was
\* written with its size list (not with -fragile).
C21_RecoveredIffIntact ==
  (\A i \in 1..Len(arc) : arc[i].type = "d" => AsWritten(arc[i]))
    => \A j \in MissingEntries :
         Containing(j) # 0 =>
           (read_archive(arc, DefaultVersion).ht[j] = StoredEntry(j)
              <=> /\ ~Damaged(arc[Containing(j)])
                  /\ arc[Containing(j)].body.sizes # <<>>)

\* the reader's state when the RECOVER pass that begins in state r finds
\* the block m of archive a (looked is FALSE if it never does)
RECURSIVE RecoverBefore(_, _, _)
RecoverBefore(a, r, m) ==
  LET n == findBlock(a, r.block_offset)
  IN IF n = 0 THEN [looked |-> FALSE, r |-> r]
     ELSE IF n = m THEN [looked |-> TRUE, r |-> r]
     ELSE RecoverBefore(a, RecoverBlock(a, n, r), m)

\* the reader of the archive at the start of its RECOVER pass
RecoverStart(a) ==
  LET r == read_archive(a, DefaultVersion)
  IN [r EXCEPT !.ht = r.scanned, !.block_offset = 0]

\* the d blocks the RECOVER pass of the archive comes to with a number
\* that is in the table
Recovered ==
  IF read_archive(arc, DefaultVersion).pass # "RECOVER" THEN {}
  ELSE {m \in 1..Len(arc) :
          /\ arc[m].type = "d"
          /\ RecoverBefore(arc, RecoverStart(arc), m).looked
          /\ arc[m].num > 0
          /\ arc[m].num < Size(RecoverBefore(arc, RecoverStart(arc), m).r.ht)}

BeforeBlock(m) == RecoverBefore(arc, RecoverStart(arc), m).r
AfterBlock(m) == RecoverBlock(arc, m, BeforeBlock(m))

\* the sum of the count words that lie before the last 8 bytes of block b
RECURSIVE SumTrailer(_, _)
SumTrailer(b, i) ==
  IF i <= 0 THEN 0
  ELSE TrailerSize(b, b.body.count, i - 1) + SumTrailer(b, i - 1)

\* the trailer of b names the block's own number
NamesBlock(b) == b.body.first = b.num

\* the count of b is positive and so many sizes lie before the last 8 bytes
CountFits(b) == b.body.count > 0 /\ 4 * b.body.count + 8 <= OsSize(b)

\* the sizes of b sum to the decompressed length minus the trailer
SumsUp(b) ==
  CountFits(b) /\ SumTrailer(b, b.body.count) + 4 * b.body.count + 8 = OsSize(b)

TestedBlocks ==
  IF cmd \notin {"test", "tested"} THEN {}
  ELSE {i \in 1..Len(ejob.block) :
          /\ ejob.block[i].state \in {"GOOD", "BAD"}
          /\ findBlock(arc, ejob.block[i].offset) # 0
          /\ arc[findBlock(arc, ejob.block[i].offset)].type = "d"
          /\ arc[findBlock(arc, ejob.block[i].offset)].num
               = ejob.block[i].start}

TestedData(i) == arc[findBlock(arc, ejob.block[i].offset)].body

\* (a) every fragment of positive size of the block hashes to its ht.sha1
HashesMatch(i) ==
  LET n == ejob.block[i].start
  IN /\ ContentLen(TestedData(i).data)
          = SumSizes(ejob.ht, n, n + ejob.block[i].size)
     /\ \A j \in n..(n + ejob.block[i].size - 1) :
          ejob.ht[j].usize > 0 =>
            SHA1(Slice(TestedData(i).data, SumSizes(ejob.ht, n, j),
                       ejob.ht[j].usize)) = ejob.ht[j].sha1

\* (b) the size list has the f sizes of ht
ListMatches(i) ==
  /\ Len(TestedData(i).sizes) = ejob.block[i].size
  /\ \A j \in 1..Len(TestedData(i).sizes) :
       TestedData(i).sizes[j] = ejob.ht[ejob.block[i].start + j - 1].usize

\* (c) the trailer has the first fragment ID n and the count f
TrailerMatches(i) ==
  /\ TestedData(i).first = ejob.block[i].start
  /\ TestedData(i).count = ejob.block[i].size

\* C26 as stated: a block that test marks GOOD has matching hashes, a size
\* list equal to the sizes in ht, and a trailer with its first fragment ID
\* and its count.
C26_AcceptsOnlyExact ==
  \A i \in TestedBlocks :
    ejob.block[i].state = "GOOD"
      => HashesMatch(i) /\ ListMatches(i) /\ TrailerMatches(i)

\* the word w passes as entry j of a size list of block i: it is the size
\* in ht, or 0, or as first entry the first fragment ID, or as second entry
\* the count
PassesAsSize(i, j, w) ==
  \/ w = ejob.ht[ejob.block[i].start + j - 1].usize
  \/ j <= 2 /\ w = 0
  \/ j = 1 /\ w = ejob.block[i].start
  \/ j = 2 /\ w = ejob.block[i].size

\* the stream ends with a size list of f entries, the first fragment ID or
\* 0 and the count or 0
ListAccepted(i) ==
  /\ Len(TestedData(i).sizes) = ejob.block[i].size
  /\ \A j \in 1..Len(TestedData(i).sizes) :
       PassesAsSize(i, j, TestedData(i).sizes[j])
  /\ TestedData(i).first \in {0, ejob.block[i].start}
  /\ TestedData(i).count \in {0, ejob.block[i].size}

\* the stream ends with 8 bytes and no list: they are read as the first
\* two words behind the fragments
NoListAccepted(i) ==
  /\ TestedData(i).sizes = <<>>
  /\ PassesAsSize(i, 1, TestedData(i).first)
  /\ IF ejob.block[i].size >= 2
       THEN PassesAsSize(i, 2, TestedData(i).count)
       ELSE TestedData(i).count \in {0, ejob.block[i].start}

\* C26: test marks a block GOOD if and only if (a) every fragment of
\* positive size hashes to its ht.sha1 and the segment checksum, if there
\* is one, holds, and (b, c) what follows the fragments is either a list of
\* f sizes, each the size in ht (but the first may be 0 or n and the second
\* 0 or f), with a first fragment ID of n or 0 and a count of f or 0, or
\* just 8 bytes that pass as the first two such words; otherwise it marks
\* the block BAD.
C26_AcceptsTolerant ==
  \A i \in TestedBlocks :
    ejob.block[i].state = "GOOD"
      <=> /\ HashesMatch(i)
          /\ ~ChecksumError(arc[findBlock(arc, ejob.block[i].offset)])
          /\ ListAccepted(i) \/ NoListAccepted(i)

\* test has marked GOOD a block written with -fragile and a block with a
\* size list whose trailer is not the one add wrote
C26_Witness ==
  /\ \E i \in TestedBlocks :
       ejob.block[i].state = "GOOD" /\ NoListAccepted(i)
  /\ \E i \in TestedBlocks :
       /\ ejob.block[i].state = "GOOD"
       /\ ListAccepted(i) /\ ~TrailerMatches(i)


\* ------------------------------------ claims on the loop and the pipeline
\* what the pipeline makes of the blocks of the loop, in their order, and
\* the sizes it reports for them
LoopOut == [i \in 1..Len(input) |-> Compressed(input[i])]
LoopSizes == [i \in 1..Len(input) |-> Compressed(input[i]).size]

\* C22: whatever the thread count T and the schedule, the blocks handed to
\* the pipeline (name, payload, type) are those of the loop of add, in its
\* order; the writer writes their compressed forms in that order; and the
\* compressed sizes that add fills into ht are those of the blocks, in that
\* order: all are functions of the files alone.
C22_IndependentOfThreads ==
  /\ passed = SubSeq(input, 1, next)
  /\ outw = SubSeq(LoopOut, 1, Len(outw))
  /\ csize = SubSeq(LoopSizes, 1, Len(csize))
  /\ pc[Main] = "joined" => outw = LoopOut /\ csize = LoopSizes

\* add has joined two workers and the writer after the loop passed two
\* blocks
C22_Witness ==
  /\ pc[Main] = "joined"
  /\ qsize = 2
  /\ Len(outw) = 2

\* ==================================================================
\* add: the fragment loop over a file before and after an edit
\* ==================================================================

\* The file looked at has FragmentRuns whole fragments of the byte 2; the
\* edit inserts one byte EditByte at the offset EditOffset.  Bytes from
\* EditOffset on lie shift bytes later in the edited file.
FragmentRuns == 67
EditOffset == 0
EditByte == 9
Original == Run(2, FragmentRuns * 7917)
Inserted(c, p, b) == Cat(Cat(Take(c, p), Run(b, 1)), Drop(c, p))

\* the fragment loop is about to read the first fragment of the original
ChunkerInit ==
  /\ PipelineAtRest
  /\ ArchiveAtRest
  /\ CliAtRest
  /\ chunker = [file |-> Original,
                edited |-> Inserted(Original, EditOffset, EditByte),
                p |-> EditOffset, shift |-> 1, reading |-> "file", pos |-> 0,
                frags |-> <<>>, efrags |-> <<>>]

\* One turn of the loop "Read a fragment" over content c from chunker.pos:
\* the fragment read, and where the loop goes on; at EOF the file is done.
AfterFragment(f, frags, nxt) ==
  [chunker EXCEPT ![frags] = Append(@, f),
                  !.pos = IF f.eof THEN 0 ELSE @ + f.sz,
                  !.reading = IF f.eof THEN nxt ELSE @]

\* the loop reads the next fragment of the original file
ChunkFile ==
  /\ chunker # <<>>
  /\ chunker.reading = "file"
  /\ \E f \in {ReadFragment(chunker.file, chunker.pos)} :
       chunker' = AfterFragment(f, "frags", "edited")
  /\ UNCHANGED <<pipeVars, journalVars, cliVars>>

\* the loop reads the next fragment of the edited file
ChunkEdited ==
  /\ chunker # <<>>
  /\ chunker.reading = "edited"
  /\ \E f \in {ReadFragment(chunker.edited, chunker.pos)} :
       chunker' = AfterFragment(f, "efrags", "done")
  /\ UNCHANGED <<pipeVars, journalVars, cliVars>>

ChunkerNext ==
  \/ ChunkFile
  \/ ChunkEdited

ChunkerSpec == ChunkerInit /\ [][ChunkerNext]_vars

\* The fragments of frags, read from content c, that hold bytes and begin
\* more than MAX_FRAGMENT bytes beyond the edit: where each begins in the
\* original file, its size and its hash.
FarFragments(frags, c, shift) ==
  {<<frags[i].pos - shift, frags[i].sz,
     SHA1(Slice(c, frags[i].pos, frags[i].sz))>> :
     i \in {j \in 1..Len(frags) :
              /\ frags[j].sz > 0
              /\ frags[j].pos - shift > chunker.p + MAX_FRAGMENT}}

\* the hashes alone
FarHashes(far) == {t[3] : t \in far}

\* both files are read to the end
ChunkerDone == chunker # <<>> /\ chunker.reading = "done"

\* C24: for a file and an insertion at offset p, the fragments covering the
\* bytes that lie more than 520192 bytes beyond p are the same before and
\* after the edit: they begin at the same bytes of the content, have the same
\* sizes and the same hashes.
C24_FarFragmentsKept ==
  ChunkerDone =>
    FarFragments(chunker.efrags, chunker.edited, chunker.shift)
      = FarFragments(chunker.frags, chunker.file, 0)

\* the weaker reading of C24: the two files have the same set of fragment
\* hashes for the bytes more than 520192 beyond p
FarHashesKept ==
  ChunkerDone =>
    FarHashes(FarFragments(chunker.efrags, chunker.edited, chunker.shift))
      = FarHashes(FarFragments(chunker.frags, chunker.file, 0))

\* both files are read to the end and the original has a fragment that
\* begins more than 520192 bytes beyond the edit
ChunkerFar ==
  /\ ChunkerDone
  /\ FarFragments(chunker.frags, chunker.file, 0) # {}

\* ------------------------------------- claims on the pipeline's semaphores
\* the data blocks CompressJob::write has put into a slot, and those whose
\* slot the writer has made EMPTY again
Filled ==
  Len(passed) - (IF pc[Main] \in {"p_wait", "p_fill"}
                      /\ arg.method # EndOfInput THEN 1 ELSE 0)
Freed == Len(csize) - (IF pc[Writer] \in {"w_write", "w_finish"} THEN 1 ELSE 0)

\* C32: in add at most T blocks are in flight; when the producer is past
\* empty.wait() a slot is EMPTY, so the search of CompressJob::write finds
\* one and assert(i<qsize) never fails; and the producer overwrites no
\* slot that is not EMPTY: every block put into a slot and not yet freed by
\* the writer is still in its slot.
C32_SlotAlwaysFound ==
  /\ "i<qsize" \notin failed
  /\ pc[Main] = "p_fill" => FirstEmpty < qsize
  /\ Filled - Freed <= qsize
  /\ \A i \in (Freed + 1)..Filled :
       \E j \in Slots : /\ q[j].state # EMPTY
                        /\ q[j].method # EndOfInput
                        /\ q[j].filename = i

\* C32 witness: with two slots the producer is past empty.wait() for the
\* third block while one of the first two is still in its slot.
C32_Witness ==
  /\ pc[Main] = "p_fill"
  /\ qsize = 2
  /\ next = 3
  /\ Filled - Freed = 1

\* the threads that are in Semaphore::wait of s, blocked or woken
InWait(s) == s.waiting \cup s.woken

\* the workers that have taken their job number
Bound == {w \in Workers : pc[w] # "c_number"}

InWrite == pc[Main] \in {"p_wait", "p_fill"} /\ arg.method # EndOfInput

\* C36: the add pipeline never deadlocks: under fair scheduling, for every
\* T and every number of blocks, each call of CompressJob::write for a data
\* block returns, and each block passed to it is compressed and written.
C36_NoDeadlock ==
  /\ InWrite ~> pc[Main] = "add"
  /\ \A i \in 1..MaxBlocks :
       Len(passed) >= i ~> (Len(outw) >= i /\ outw[i] = ExpectedOut[i])

\* C36 witness: with one slot the producer is blocked in empty.wait() for
\* the third block.
C36_Witness ==
  /\ qsize = 1
  /\ next = 3
  /\ InWrite
  /\ Main \in empty.waiting

\* ==================================================================
\* add: the fragment loop over single files
\* ==================================================================

\* The files read: runs of the bytes 2 and 170 of up to MaxSmall bytes;
\* runs of the byte 2, in which the hash is below 65536 after every 7917
\* bytes; a run of the byte 170, in which it is below 65536 after 555 and
\* after 9008 bytes; and 17 bytes of value 1 before a run of the byte 18, in
\* which it is not below 65536 in the first 520192 bytes.
MaxSmall == 40
ChunkedFiles ==
  {Run(b, n) : b \in {2, 170}, n \in 0..MaxSmall}
    \cup {Run(2, 7917), Run(2, 8000), Run(2, 15834), Run(170, 9100),
          Cat(Run(1, 17), Run(18, MAX_FRAGMENT + 83))}

\* the fragment loop is about to read the first fragment of a file
FragmentInit ==
  /\ PipelineAtRest
  /\ ArchiveAtRest
  /\ CliAtRest
  /\ chunker \in {[file |-> c, edited |-> c, p |-> 0, shift |-> 0,
                   reading |-> "file", pos |-> 0, frags |-> <<>>,
                   efrags |-> <<>>] : c \in ChunkedFiles}

FragmentNext == ChunkFile

FragmentSpec == FragmentInit /\ [][FragmentNext]_vars

\* The rule of C33, followed over the bytes lo..hi-1 of c: the hash, the
\* order-1 table and the size from zero; cut tells whether the rule ends
\* the fragment after the last byte taken, early whether it did after a
\* byte before that one, and then no further byte is taken.
ScanInit == [h |-> <<0, 0>>, c1 |-> 0, o1 |-> [b \in 0..255 |-> 0],
             sz |-> 0, early |-> 0, cut |-> FALSE]

ScanByte(st, c) ==
  LET h == Roll(st.h, c, IF c = st.o1[st.c1] THEN 314159265 ELSE 271828182)
  IN [h |-> h, c1 |-> c, o1 |-> [st.o1 EXCEPT ![st.c1] = c],
      sz |-> st.sz + 1,
      early |-> IF st.cut THEN st.early + 1 ELSE st.early,
      cut |-> (h[1] = 0 /\ st.sz + 1 >= 4096) \/ st.sz + 1 >= 520192]

RECURSIVE Scan(_, _, _, _)
Scan(st, c, lo, hi) ==
  IF st.early > 0 \/ lo >= hi THEN st
  ELSE IF hi = lo + 1 THEN ScanByte(st, ByteAt(c, lo))
  ELSE LET mid == (lo + hi) \div 2
       IN Scan(Scan(st, c, lo, mid), c, mid, hi)

\* fragment f of the file c ends where the rule, followed to s, says
EndsByRule(c, f, s) ==
  /\ s.early = 0
  /\ ~f.eof => s.cut
  /\ f.eof <=> (f.pos + f.sz = ContentLen(c) /\ ~s.cut)
  /\ f.sz <= 520192
  /\ ~f.eof => f.sz >= 4096

\* the fragment read last
LastFragment == chunker.frags[Len(chunker.frags)]

\* C33: the chunker ends a fragment exactly when the end of the file is
\* reached, or the rolling hash, taken from zero at the start of the
\* fragment with a zeroed order-1 table, is below 65536 and the fragment
\* has at least 4096 bytes, or the fragment has 520192 bytes: after no
\* earlier byte of the fragment does one of these hold; so a fragment has
\* at most 520192 bytes, and at least 4096 unless it ends at the end of
\* the file.
C33_FragmentEnds ==
  (chunker # <<>> /\ chunker.frags # <<>>) =>
    EndsByRule(chunker.file, LastFragment,
               Scan(ScanInit, chunker.file, LastFragment.pos,
                    LastFragment.pos + LastFragment.sz))

\* C33 witness: a fragment was ended by its size, and the file goes on.
C33_Witness ==
  /\ chunker # <<>>
  /\ chunker.frags # <<>>
  /\ LastFragment.sz = MAX_FRAGMENT
  /\ ~LastFragment.eof
  /\ ContentLen(chunker.file) > MAX_FRAGMENT

\* a fragment was ended by the hash though the hash had been below 65536
\* before the fragment had 4096 bytes
EndedByHash ==
  /\ chunker # <<>>
  /\ chunker.frags # <<>>
  /\ LastFragment.sz = 9008
  /\ ~LastFragment.eof
  /\ Scan(ScanInit, chunker.file, 0, 555).h[1] = 0

\* ------------------------------------------ claims on the fragment tables
\* the fragment IDs that have their entry in ht, and those an h block names
FilledIDs(ht) == {id \in DOMAIN ht : ht[id].csize # HT_BAD}
NamedIDs(b) == b.num..(b.num + Len(b.body) - 2)

\* ht as the NORMAL pass of the reader r left it
NormalHt(r) == IF r.passes > 1 THEN r.scanned ELSE r.ht

\* what C37 says of the block b, read in the NORMAL pass, which had ht
\* before it and has ht1 after it
TableKept(b, ht, ht1) ==
  /\ \A id \in FilledIDs(ht) : ht1[id] = ht[id]
  /\ (b.type = "h" /\ NamedIDs(b) \cap FilledIDs(ht) # {}) => ht1 = ht

\* C37: once read_archive has filled the HT entry of a fragment ID from an
\* h block, no later block changes the entry's hash, size or locator in
\* the NORMAL pass; an h block that names an ID which has its entry leaves
\* HT as it was before the block was read.
C37_FilledEntriesKept ==
  \A m \in 1..Len(arc) :
    TableKept(arc[m],
              NormalHt(read_archive(SubSeq(arc, 1, m - 1), DefaultVersion)),
              NormalHt(read_archive(SubSeq(arc, 1, m), DefaultVersion)))

\* What holds of C37: size and locator of a filled entry are kept, and an
\* h block that names an ID which has its entry changes nothing in HT but
\* the hash of the entry of its number.
TableHashOnly(b, ht, ht1) ==
  /\ \A id \in FilledIDs(ht) : /\ ht1[id].usize = ht[id].usize
                               /\ ht1[id].csize = ht[id].csize
  /\ (b.type = "h" /\ NamedIDs(b) \cap FilledIDs(ht) # {}) =>
       /\ DOMAIN ht1 = DOMAIN ht
       /\ \A id \in DOMAIN ht :
            ht1[id] # ht[id] => id = b.num /\ ht1[id].sha1 = b.body[2].sha1

SizesAndLocatorsKept ==
  \A m \in 1..Len(arc) :
    TableHashOnly(arc[m],
                  NormalHt(read_archive(SubSeq(arc, 1, m - 1), DefaultVersion)),
                  NormalHt(read_archive(SubSeq(arc, 1, m), DefaultVersion)))

\* every d block of the archive is as add without -fragile wrote it
AllIntact ==
  \A i \in 1..Len(arc) :
    arc[i].type = "d" =>
      AsWritten(arc[i]) /\ ~Damaged(arc[i]) /\ arc[i].body.sizes # <<>>

\* C38: the RECOVER pass makes no entry for a fragment that is not there:
\* after a d block with first fragment n and count f, ht.size() is at most
\* the larger of what it was and n+f; so when every d block is intact no
\* entry of HT is left without locator when read_archive returns.
C38_NoPhantomFragments ==
  /\ \A m \in Recovered :
       \/ Size(AfterBlock(m).ht) <= Size(BeforeBlock(m).ht)
       \/ Size(AfterBlock(m).ht) <= arc[m].num + arc[m].body.count
  /\ (read_archive(arc, DefaultVersion).pass = "RECOVER" /\ AllIntact) =>
       \A j \in 1..(Size(read_archive(arc, DefaultVersion).ht) - 1) :
         read_archive(arc, DefaultVersion).ht[j].csize # HT_BAD

\* ------------------------------- extract: the threads, lock by lock
\* The two mutexes of ExtractJob are held by the thread whose position is
\* between a lock and its release: job.mutex ("protects state") at mark and
\* s_mark, job.write_mutex ("protects writing to disk") at writing.  lock
\* returns only when no thread holds the mutex.
StateHolders ==
  {t \in DOMAIN ethread : ethread[t].pc \in {"mark", "s_mark"}}

WriteHolders == {t \in DOMAIN ethread : ethread[t].pc = "writing"}

\* A slip of this code, for testing the claims: lock returns at once.
LockAnyway(holders) == TRUE

Lock(holders) == holders = {}

\* The segment of a d block is named after the block (jDC, the date, d,
\* the first fragment ID), and the main thread looks that name up in dt.
\* Here path 2 of the tree is the file of the name that the block of date 2
\* with first fragment 1 has; no other block has the name of a path.
NamedPath(b) == IF b.date = 2 /\ b.num = 1 THEN 2 ELSE 0

\* decompressThread w, "Look for next READY job", under job.mutex
FindLocked(w) ==
  /\ Lock(StateHolders)
  /\ DecompressFind(w)

\* decompressThread w, the try block up to "Verify fragment checksums"
DecompressOnly(w) ==
  /\ cmd = "extract"
  /\ w \in DOMAIN ethread
  /\ ethread[w].pc = "decompress"
  /\ LET b == ejob.block[ethread[w].i]
         n == findBlock(arc, ejob.ht[b.start].csize)
     IN IF \/ n = 0
           \/ ContentLen(Payload(arc, n))
                < SumSizes(ejob.ht, b.start, b.start + b.size)
          THEN ethread' = [ethread EXCEPT
                             ![w] = [pc |-> "find", i |-> @.i + 1]]
          ELSE ethread' = [ethread EXCEPT
                             ![w] = [pc |-> "verify", i |-> @.i,
                                     j |-> b.start]]
  /\ UNCHANGED <<arc, tree, cmd, jd, pending, hist, ncmd, edited, last>>
  /\ UNCHANGED <<ejob, outdir, eret, restVars>>

\* one pass of the loop "Verify fragment checksums if present" up to
\* lock(job.mutex); a bad checksum is thrown and the block skipped.  out is
\* read again here as the thread decompressed it, from the block at
\* b.offset, which is where ht[b.start].csize pointed then.
VerifyFragment(w) ==
  /\ cmd = "extract"
  /\ w \in DOMAIN ethread
  /\ ethread[w].pc = "verify"
  /\ LET b == ejob.block[ethread[w].i]
         j == ethread[w].j
         out == Payload(arc, findBlock(arc, b.offset))
     IN IF j >= b.start + b.size
          THEN ethread' = [ethread EXCEPT
                             ![w] = [pc |-> "write", i |-> @.i]]
          ELSE IF /\ SHA1(Slice(out, SumSizes(ejob.ht, b.start, j),
                                ejob.ht[j].usize)) # ejob.ht[j].sha1
                  /\ ejob.ht[j].sha1 # ZeroSha1
            THEN ethread' = [ethread EXCEPT
                               ![w] = [pc |-> "find", i |-> @.i + 1]]
          ELSE /\ Lock(StateHolders)
               /\ ethread' = [ethread EXCEPT ![w].pc = "mark"]
  /\ UNCHANGED <<arc, tree, cmd, jd, pending, hist, ncmd, edited, last>>
  /\ UNCHANGED <<ejob, outdir, eret, restVars>>

\* job.jd.ht[j].csize=EXTRACTED and release(job.mutex)
MarkFragment(w) ==
  /\ cmd = "extract"
  /\ w \in DOMAIN ethread
  /\ ethread[w].pc = "mark"
  /\ ejob' = [ejob EXCEPT !.ht[ethread[w].j].csize = EXTRACTED]
  /\ ethread' = [ethread EXCEPT ![w].pc = "verify", ![w].j = @ + 1]
  /\ UNCHANGED <<arc, tree, cmd, jd, pending, hist, ncmd, edited, last>>
  /\ UNCHANGED <<outdir, eret, restVars>>

\* lock(job.write_mutex)
LockWrite(w) ==
  /\ cmd = "extract"
  /\ w \in DOMAIN ethread
  /\ ethread[w].pc = "write"
  /\ Lock(WriteHolders)
  /\ ethread' = [ethread EXCEPT ![w].pc = "writing"]
  /\ UNCHANGED <<arc, tree, cmd, jd, pending, hist, ncmd, edited, last>>
  /\ UNCHANGED <<ejob, outdir, eret, restVars>>

\* S is what the loop over the files of the block left
WrittenLocked(w, S) ==
  /\ ejob' = [ejob EXCEPT !.dt = S.dt, !.lastdt = S.lastdt,
                          !.isopen = S.isopen]
  /\ outdir' = S.dir
  /\ ethread' = [ethread EXCEPT ![w] = [pc |-> "find", i |-> @.i + 1]]

\* "Write the files in dt that point to this block" and
\* release(job.write_mutex)
WriteLocked(w) ==
  /\ cmd = "extract"
  /\ w \in DOMAIN ethread
  /\ ethread[w].pc = "writing"
  /\ WrittenLocked(w,
       WriteFiles([dt |-> ejob.dt, dir |-> outdir, lastdt |-> ejob.lastdt,
                   isopen |-> ejob.isopen],
                  ejob.ht, ejob.block[ethread[w].i],
                  Payload(arc, findBlock(arc,
                                         ejob.block[ethread[w].i].offset)),
                  1))
  /\ UNCHANGED <<arc, tree, cmd, jd, pending, hist, ncmd, edited, last>>
  /\ UNCHANGED <<eret, restVars>>

\* The main thread has decompressed the segment of block n into the file
\* of path p (0: dt.end(), the output goes nowhere); bad tells whether the
\* checksum of the segment failed, which is thrown.
Streamed(n, p, bad) ==
  /\ outdir' = IF p # 0 /\ ejob.dt[p].written = 0
                 THEN [outdir EXCEPT ![p] = Writing(Payload(arc, n))]
                 ELSE outdir
  /\ ethread' = [ethread EXCEPT
                   ![0] = IF bad THEN [pc |-> "stream", i |-> @.i + 1]
                          ELSE [pc |-> "s_lock", i |-> @.i, p |-> p]]

\* "Decompress streaming files in a single thread": one pass of the loop of
\* the main thread up to lock(job.mutex).  The segment is named, so p is
\* what dt.find finds for the name; the file is created if nothing of it
\* was written yet.
StreamBlock ==
  /\ cmd = "extract"
  /\ ethread[0].pc = "stream"
  /\ IF ethread[0].i > Len(ejob.block)
       THEN /\ ethread' = [ethread EXCEPT ![0].pc = "join"]
            /\ UNCHANGED outdir
       ELSE IF \/ ejob.block[ethread[0].i].size = 0
               \/ ~ejob.block[ethread[0].i].streaming
               \/ findBlock(arc, ejob.block[ethread[0].i].offset) = 0
         THEN /\ ethread' = [ethread EXCEPT ![0].i = @ + 1]
              /\ UNCHANGED outdir
       ELSE LET n == findBlock(arc, ejob.block[ethread[0].i].offset)
            IN Streamed(n,
                        IF NamedPath(arc[n]) \in DOMAIN ejob.dt
                          THEN NamedPath(arc[n]) ELSE 0,
                        Damaged(arc[n]))
  /\ UNCHANGED <<arc, tree, cmd, jd, pending, hist, ncmd, edited, last>>
  /\ UNCHANGED <<ejob, eret, restVars>>

\* lock(job.mutex) of the main thread
StreamLock ==
  /\ cmd = "extract"
  /\ ethread[0].pc = "s_lock"
  /\ Lock(StateHolders)
  /\ ethread' = [ethread EXCEPT ![0].pc = "s_mark"]
  /\ UNCHANGED <<arc, tree, cmd, jd, pending, hist, ncmd, edited, last>>
  /\ UNCHANGED <<ejob, outdir, eret, restVars>>

\* ht[b.start+j].csize=EXTRACTED and release(job.mutex), j being 0
StreamMark ==
  /\ cmd = "extract"
  /\ ethread[0].pc = "s_mark"
  /\ ejob' = [ejob EXCEPT
                !.ht[ejob.block[ethread[0].i].start].csize = EXTRACTED]
  /\ ethread' = [ethread EXCEPT
                   ![0] = IF @.p = 0 THEN [pc |-> "stream", i |-> @.i + 1]
                          ELSE [pc |-> "s_read", i |-> @.i, p |-> @.p]]
  /\ UNCHANGED <<arc, tree, cmd, jd, pending, hist, ncmd, edited, last>>
  /\ UNCHANGED <<outdir, eret, restVars>>

\* "if (p!=dt.end()) ++p->second.written;": the counter is read,
StreamRead ==
  /\ cmd = "extract"
  /\ ethread[0].pc = "s_read"
  /\ ethread' = [ethread EXCEPT
                   ![0] = [pc |-> "s_write", i |-> @.i, p |-> @.p,
                           written |-> ejob.dt[@.p].written]]
  /\ UNCHANGED <<arc, tree, cmd, jd, pending, hist, ncmd, edited, last>>
  /\ UNCHANGED <<ejob, outdir, eret, restVars>>

\* and what was read plus one is stored
StreamWrite ==
  /\ cmd = "extract"
  /\ ethread[0].pc = "s_write"
  /\ ejob' = [ejob EXCEPT !.dt[ethread[0].p].written =
                             ethread[0].written + 1]
  /\ ethread' = [ethread EXCEPT ![0] = [pc |-> "stream", i |-> @.i + 1]]
  /\ UNCHANGED <<arc, tree, cmd, jd, pending, hist, ncmd, edited, last>>
  /\ UNCHANGED <<outdir, eret, restVars>>

LockedNext ==
  \/ \E p \in Paths, f \in Files \cup {NoFile} : Edit(p, f)
  \/ \E now \in Clock : AddBegin("-add", Paths, now, FALSE)
  \/ AddWriteData
  \/ AddTables
  \/ AddWriteIndex
  \/ AddHeader
  \/ \E T \in 1..MaxThreads, garbage \in [1..MaxCommands -> BOOLEAN] :
       ExtractBegin(T, garbage)
  \/ \E w \in 1..MaxThreads : FindLocked(w)
  \/ \E w \in 1..MaxThreads : DecompressOnly(w)
  \/ \E w \in 1..MaxThreads : VerifyFragment(w)
  \/ \E w \in 1..MaxThreads : MarkFragment(w)
  \/ \E w \in 1..MaxThreads : LockWrite(w)
  \/ \E w \in 1..MaxThreads : WriteLocked(w)
  \/ StreamBlock
  \/ StreamLock
  \/ StreamMark
  \/ StreamRead
  \/ StreamWrite
  \/ ExtractReport

LockedSpec == ArchiveInit /\ [][LockedNext]_vars

\* ------------------------------------- claims on the mutexes of extract
\* the threads of extract run before and after the step
ThreadsRun == cmd = "extract" /\ cmd' = "extract"

\* thread t takes a step
Steps(t) == ethread'[t] # ethread[t]

\* at most one thread is between lock(job.write_mutex) and its release
WriteExclusive == cmd = "extract" => Cardinality(WriteHolders) <= 1

\* job.outf and job.lastdt change in a step of the holder of write_mutex
OutputGuarded ==
  [][(ThreadsRun /\ (ejob'.lastdt # ejob.lastdt \/ ejob'.isopen # ejob.isopen))
       => \E t \in WriteHolders : Steps(t)]_vars

\* a fragment is marked EXTRACTED in a step of the holder of job.mutex
ExtractedGuarded ==
  [][(ThreadsRun /\ \E j \in DOMAIN ejob.ht :
                   /\ ejob'.ht[j].csize = EXTRACTED
                   /\ ejob.ht[j].csize # EXTRACTED)
       => (Cardinality(StateHolders) = 1
           /\ \E t \in StateHolders : Steps(t))]_vars

\* the written counter of a file changes in a step of the holder of
\* write_mutex
WrittenGuarded ==
  [][(ThreadsRun /\ \E p \in DOMAIN ejob.dt :
                   ejob'.dt[p].written # ejob.dt[p].written)
       => \E t \in WriteHolders : Steps(t)]_vars

\* C31: in extract at most one worker at a time is between acquiring and
\* releasing the write mutex; outf, lastdt and the written counter of every
\* file change only in that section; and a fragment becomes EXTRACTED only
\* in a step of the thread that holds the state mutex.
C31_SectionsGuard ==
  /\ []WriteExclusive
  /\ OutputGuarded
  /\ WrittenGuarded
  /\ ExtractedGuarded

\* the main thread stores a written counter while a worker holds
\* write_mutex
UnguardedCount ==
  /\ cmd = "extract"
  /\ ethread[0].pc = "s_write"
  /\ WriteHolders # {}

\* ----------------------------------------------- extract: with -fragile
\* extract with or without -fragile: as ExtractListed, the main thread
\* keeping the option
ExtractOptionListed(r, dt, m, T, opt) ==
  IF \E p \in DOMAIN dt : Selected(dt[p]) /\ outdir[p] # NoFile
    THEN /\ cmd' = "extracted"         \* won't clobber existing files
         /\ eret' = 2
         /\ UNCHANGED <<ejob, ethread, outdir>>
    ELSE /\ cmd' = "extract"
         /\ ejob' = [ht |-> r.ht, dt |-> dt,
                     block |-> ListFiles(r.ht, m.hti, m.block, dt,
                                         InOrder(DOMAIN dt)),
                     lastdt |-> 0, isopen |-> FALSE]
         /\ ethread' = [t \in 0..T |->
                          IF t = 0
                            THEN [pc |-> "stream", i |-> 1, fragile |-> opt]
                            ELSE [pc |-> "find", i |-> 1]]
         /\ UNCHANGED <<outdir, eret>>

ExtractOptionRead(r, T, garbage, opt) ==
  IF r.block_offset = 0
    THEN /\ cmd' = "extracted"
         /\ eret' = 1
         /\ UNCHANGED <<ejob, ethread, outdir>>
    ELSE ExtractOptionListed(r, read_args(r.dt, {}, FALSE, tree),
                             MapFragments(r.ht, 1,
                                          [block |-> <<>>,
                                           hti |-> [i \in DOMAIN r.ht |-> 0]],
                                          garbage),
                             T, opt)

ExtractOption(T, garbage, opt) ==
  /\ cmd = "idle"
  /\ ExtractOptionRead(read_archive(arc, DefaultVersion), T, garbage, opt)
  /\ UNCHANGED <<arc, tree, jd, pending, hist, ncmd, edited, last>>
  /\ UNCHANGED restVars

\* the try block of decompressThread with -fragile: the loop "Verify
\* fragment checksums if present" ends at once, no fragment is marked
Undigested(a, ht, b, n) ==
  IF n = 0 THEN [ht |-> ht, thrown |-> TRUE]     \* archive block not found
  ELSE IF ContentLen(Payload(a, n)) < SumSizes(ht, b.start, b.start + b.size)
    THEN [ht |-> ht, thrown |-> TRUE]    \* unexpected end of compressed data
  ELSE [ht |-> ht, thrown |-> FALSE]

\* A slip of this code, for testing the claims: the fragments are verified
\* whatever the option says.
TryVerified(opt, a, ht, b, n) == Decompress(a, ht, b, n)

TryBlock(opt, a, ht, b, n) ==
  IF opt THEN Undigested(a, ht, b, n) ELSE Decompress(a, ht, b, n)

\* decompressThread w decompresses its block
DecompressOption(w) ==
  /\ cmd = "extract"
  /\ w \in DOMAIN ethread
  /\ ethread[w].pc = "decompress"
  /\ Decompressed(w,
       TryBlock(ethread[0].fragile, arc, ejob.ht, ejob.block[ethread[w].i],
                findBlock(arc,
                          ejob.ht[ejob.block[ethread[w].i].start].csize)))
  /\ UNCHANGED <<arc, tree, cmd, jd, pending, hist, ncmd, edited, last>>
  /\ UNCHANGED <<outdir, eret, restVars>>

\* one pass of the streaming loop of the main thread, as ExtractStream:
\* with -fragile the checksum of the segment is not compared
StreamOption ==
  /\ cmd = "extract"
  /\ ethread[0].pc = "stream"
  /\ IF ethread[0].i > Len(ejob.block)
       THEN /\ ethread' = [ethread EXCEPT ![0].pc = "join"]
            /\ UNCHANGED ejob
       ELSE /\ ethread' = [ethread EXCEPT ![0].i = @ + 1]
            /\ IF /\ ejob.block[ethread[0].i].size # 0
                  /\ ejob.block[ethread[0].i].streaming
                  /\ findBlock(arc, ejob.block[ethread[0].i].offset) # 0
                  /\ \/ ethread[0].fragile
                     \/ ~Damaged(arc[findBlock(arc,
                                        ejob.block[ethread[0].i].offset)])
                 THEN ejob' = [ejob EXCEPT
                        !.ht[ejob.block[ethread[0].i].start].csize =
                           EXTRACTED]
                 ELSE UNCHANGED ejob
  /\ UNCHANGED <<arc, tree, cmd, jd, pending, hist, ncmd, edited, last>>
  /\ UNCHANGED <<outdir, eret, restVars>>

OptionNext ==
  \/ \E p \in Paths, f \in Files \cup {NoFile} : Edit(p, f)
  \/ \E now \in Clock : AddBegin("-add", Paths, now, FALSE)
  \/ AddWriteData
  \/ AddTables
  \/ AddWriteIndex
  \/ AddHeader
  \/ \E T \in 1..MaxThreads, garbage \in [1..MaxCommands -> BOOLEAN],
        opt \in BOOLEAN : ExtractOption(T, garbage, opt)
  \/ \E w \in 1..MaxThreads : DecompressFind(w)
  \/ \E w \in 1..MaxThreads : DecompressOption(w)
  \/ \E w \in 1..MaxThreads : DecompressWrite(w)
  \/ StreamOption
  \/ ExtractReport

OptionSpec == ArchiveInit /\ [][OptionNext]_vars

\* --------------------------------------- claims on extract with -fragile
\* extract has run its threads and reported
Reported == cmd = "extracted" /\ ejob # NoJidac

\* every selected file has all the fragments of its plan written
AllWritten ==
  \A p \in DOMAIN ejob.dt :
    (Live(ejob.dt[p]) /\ ejob.dt[p].written >= 0) =>
      ejob.dt[p].written
        = Len(ejob.dt[p].dtv[Len(ejob.dt[p].dtv)].ptr)

\* C39: extract returns 0 whenever every selected file ends with all the
\* fragments of its plan written, without -fragile and with it.
C39_WrittenMeansOK == (Reported /\ AllWritten) => eret = 0

\* the same without -fragile only
WrittenMeansOKVerified ==
  (Reported /\ AllWritten /\ ~ethread[0].fragile) => eret = 0

\* extract without -fragile has written a file of two fragments
VerifiedWritten ==
  /\ Reported
  /\ AllWritten
  /\ ~ethread[0].fragile
  /\ \E p \in DOMAIN ejob.dt : ejob.dt[p].written = 2

\* extract -fragile has written every fragment of a file and reports it
\* as failed
FragileFailed ==
  /\ Reported
  /\ AllWritten
  /\ ethread[0].fragile
  /\ eret = 1
  /\ \E p \in DOMAIN ejob.dt :
       /\ ejob.dt[p].written = 2
       /\ outdir[p] = tree[p]

\* ------------------------------------ add: files that fail to open
\* what in.open finds: the files of the tree, but for the paths of denied,
\* which are on disk as the scan saw them and fail to open (no permission,
\* locked by another program)
Opened(tr, denied) ==
  [p \in Paths |-> IF p \in denied THEN NoFile ELSE tr[p]]

\* as AddLooped; the arguments of the command and the paths that failed to
\* open are kept with the job
AddDeniedLooped(r, date, vf, files, denied, L) ==
  /\ arc' = Write(Truncate(arc, r.block_offset),
                  writeTag(CBlock(date, 0 - 1, Size(r.ht)), L.fragile))
  /\ cmd' = "add_data"
  /\ jd' = [ht |-> L.ht, dt |-> L.dt, ver |-> r.ver, date |-> date,
            htsize |-> Size(r.ht), header_pos |-> r.block_offset,
            force |-> FALSE, vf |-> vf, csize |-> <<>>, cdatasize |-> 0,
            fragile |-> L.fragile, files |-> files, denied |-> denied]
  /\ pending' = L.blocks
  /\ last' = "updating"

AddDeniedListed(r, dt, vf, deletions, date, files, denied) ==
  IF Len(vf) = 0 /\ deletions = 0
    THEN /\ last' = "not updated"
         /\ UNCHANGED <<arc, cmd, jd, pending>>
    ELSE AddDeniedLooped(r, date, vf, files, denied,
                         AddLoop(LoopInit(r.ht, dt), vf, date,
                                 Opened(tree, denied)))

AddDeniedScanned(r, dt, now, files, denied) ==
  AddDeniedListed(r, dt,
                  SortFiles({p \in DOMAIN dt : ToAdd(dt[p], FALSE)}),
                  Cardinality({p \in DOMAIN dt :
                                 dt[p].written = 0 /\ dt[p].edate = 0}),
                  TransactionDate(r.ver, now),
                  files, denied)

\* add of the arguments files, from its start to the placeholder header, as
\* AddBegin
AddDenied(files, now, denied) ==
  /\ cmd = "idle"
  /\ ncmd < MaxCommands
  /\ \E r \in {read_archive(arc, DefaultVersion)} :
       AddDeniedScanned(r, read_args(r.dt, files, TRUE, tree), now, files,
                        denied)
  /\ ncmd' = ncmd + 1
  /\ edited' = FALSE
  /\ UNCHANGED <<tree, hist>>
  /\ UNCHANGED <<restVars, extractVars>>

DeniedNext ==
  \/ \E p \in Paths, f \in Files \cup {NoFile} : Edit(p, f)
  \/ \E files \in (SUBSET Paths) \ {{}}, now \in Clock,
        denied \in SUBSET Paths : AddDenied(files, now, denied)
  \/ AddWriteData
  \/ AddTables
  \/ AddWriteIndex
  \/ AddHeader

DeniedSpec == ArchiveInit /\ [][DeniedNext]_vars

\* -------------------------------------------- claims on deletion records
\* the deletion records add is about to write: "Remove file if external
\* does not exist and is currently in archive"
Removals == {p \in DOMAIN jd.dt : ToRemove(jd.dt[p])}

\* the paths the finished add recorded as deleted: their latest version is
\* a deletion of the latest transaction
RecordedDeleted ==
  LET j == hist[Size(hist) - 1].jidac
  IN {p \in DOMAIN j.dt :
        /\ Len(j.dt[p].dtv) > 0
        /\ j.dt[p].dtv[Len(j.dt[p].dtv)].date = 0
        /\ j.dt[p].dtv[Len(j.dt[p].dtv)].version = Size(j.ver) - 1}

\* C34: add writes a deletion record for a path only when the path matches
\* the arguments, its latest archived version is live and the scan did not
\* find the path; a path that is on disk is never recorded as deleted.
C34_DeletedOnlyIfGone ==
  /\ Adding =>
       \A p \in Removals :
         /\ p \in jd.files
         /\ p \in DOMAIN hist[Size(hist) - 1].jidac.dt
         /\ Live(hist[Size(hist) - 1].jidac.dt[p])
         /\ tree[p] = NoFile
  /\ (cmd = "idle" /\ last = "updated" /\ ~edited) =>
       \A p \in RecordedDeleted : tree[p] = NoFile

\* the paths of a deletion record match the arguments and were live, and
\* are gone or failed to open
DeletedIfGoneOrDenied ==
  Adding =>
    \A p \in Removals :
      /\ p \in jd.files
      /\ p \in DOMAIN hist[Size(hist) - 1].jidac.dt
      /\ Live(hist[Size(hist) - 1].jidac.dt[p])
      /\ tree[p] = NoFile \/ p \in jd.denied

\* a file that is on disk, was changed since it was archived and fails to
\* open is recorded as deleted
DeniedDeleted ==
  /\ cmd = "idle"
  /\ last = "updated"
  /\ ~edited
  /\ \E p \in RecordedDeleted :
       tree[p] # NoFile /\ ContentLen(tree[p].data) > 0

\* add records a file that is gone as deleted
GoneDeleted ==
  /\ cmd = "idle"
  /\ last = "updated"
  /\ ~edited
  /\ \E p \in RecordedDeleted : tree[p] = NoFile

\* ------------------------------ add: the sizes of the blocks it hands over
\* The loop "Compress until end of last file" seen through its sizes only:
\* sb is sb.size(), and a fragment is its size sz, whether the file ended
\* with it, whether ht knew its hash (it is discarded then) and the hits of
\* the redundancy estimate.  The empty fragment has one hash, so it is new
\* once; at most MaxTiny fragments of one byte are new.
MaxTiny == 1

\* -method: its first character as a level and the number that follows it
\* (NoCounter: the method is one character)
Methods ==
  {[level |-> 1, arg |-> NoCounter], [level |-> 1, arg |-> 0],
   [level |-> 3, arg |-> 2]}

\* the sizes of the fragments read, of the hits counted and of the file
\* that comes next
FragmentSizes == {0, 1, MAX_FRAGMENT}

NextSizes == {0, 16777216}

\* "Set block size"
BlockSize(method) ==
  IF method.arg # NoCounter THEN 2 ^ (20 + method.arg) - 4096
  ELSE IF method.level > 1 THEN 2 ^ 26 - 4096
  ELSE 2 ^ 24 - 4096

\* lg(x): the number of bits of x
RECURSIVE lg(_)
lg(x) == IF x = 0 THEN 0 ELSE 1 + lg(x \div 2)

\* compressBlock on n bytes: assert((1u<<(arg0+20))>=n+4096) holds, and
\* with it assert(n<=(0x100000u<<args[0])-4096), args[0] being arg0
SizeAsserted(method, n) ==
  LET arg0 == IF method.arg # NoCounter THEN method.arg
              ELSE IF lg(n + 4095) > 20 THEN lg(n + 4095) - 20 ELSE 0
  IN 2 ^ (arg0 + 20) >= n + 4096

\* sb.size()>blocksize-MAX_FRAGMENT-80-frags*4, the right side being an
\* unsigned of 32 bits: below zero it is a number larger than any size.
\* A slip of this code, for testing the claims: the room of one fragment
\* is not kept.
BlockFullLate(B, sb, frags) ==
  B - 80 - frags * 4 >= 0 /\ sb > B - 80 - frags * 4

BlockFull(B, sb, frags) ==
  /\ B - MAX_FRAGMENT - 80 - frags * 4 >= 0
  /\ sb > B - MAX_FRAGMENT - 80 - frags * 4

\* the test "Compress a block if ..." on the locals S of the loop
FlushTest(S) ==
  LET B == BlockSize(S.method)
  IN \/ ~S.more
     \/ BlockFull(B, S.sb, S.frags)
     \/ /\ S.fj = 0
        /\ S.sb > (B * 3) \div 4
        /\ S.sb + S.esize > B - MAX_FRAGMENT - 2048
     \/ S.fj = 0 /\ S.sb > B \div 8 /\ S.redundancy < S.sb \div 32
     \/ S.fj = 0 /\ S.sb > B \div 4 /\ S.redundancy < S.sb \div 16
     \/ S.fj = 0 /\ S.sb > B \div 2 /\ S.redundancy < S.sb \div 8

\* the locals before the loop, vf holding a file of esize bytes; handed is
\* the size of what job.write got in this turn of the loop (NoCounter:
\* nothing), failed whether an assertion of compressBlock failed on a block
SizesStart(method, fragile, esize) ==
  [pc |-> "loop", method |-> method, fragile |-> fragile, more |-> TRUE,
   esize |-> esize, fj |-> 0, sb |-> 0, frags |-> 0, redundancy |-> 0,
   zero |-> FALSE, tiny |-> 0, handed |-> NoCounter, failed |-> FALSE]

SizesInit ==
  /\ chunker \in {SizesStart(method, fragile, esize) :
                    method \in Methods, fragile \in BOOLEAN,
                    esize \in NextSizes}
  /\ ArchiveAtRest
  /\ PipelineAtRest
  /\ CliAtRest

\* "Pad sb with redundant fragment size list and compress": sb with the
\* list (8 bytes with -fragile) goes to job.write and to compressBlock
SizesFlush ==
  /\ chunker # <<>>
  /\ chunker.pc = "loop"
  /\ chunker.more \/ chunker.frags > 0
  /\ FlushTest(chunker)
  /\ chunker.frags > 0
  /\ LET n == chunker.sb + (IF chunker.fragile THEN 8
                            ELSE 4 * chunker.frags + 8)
     IN chunker' = [chunker EXCEPT
                      !.handed = n,
                      !.failed = @ \/ ~SizeAsserted(chunker.method, n),
                      !.sb = 0, !.frags = 0, !.redundancy = 0]
  /\ UNCHANGED <<pipeVars, journalVars, cliVars>>

\* "Read a fragment" of sz bytes, "Look for matching fragment" and "Close
\* file at EOF"; after the end of a file the next one, if there is one, has
\* esize bytes.  The hits of a fragment that is discarded are not counted,
\* and without a next file there is no size of it: both are taken as 0.
SizesFragment(sz, eof, known, hits, another, esize) ==
  /\ chunker # <<>>
  /\ chunker.pc = "loop"
  /\ chunker.more
  /\ ~FlushTest(chunker)
  /\ sz < MIN_FRAGMENT => eof
  /\ (sz = 0 /\ chunker.zero) => known
  /\ (sz = 1 /\ chunker.tiny = MaxTiny) => known
  /\ hits = IF known THEN 0 ELSE hits
  /\ hits \in {0, sz}
  /\ ~eof => (another /\ esize = chunker.esize)
  /\ (eof /\ ~another) => esize = 0
  /\ chunker' = [chunker EXCEPT
                   !.sb = IF known THEN @ ELSE @ + sz,
                   !.frags = IF known THEN @ ELSE @ + 1,
                   !.redundancy = IF known THEN @ ELSE @ + hits,
                   !.zero = @ \/ sz = 0,
                   !.tiny = IF sz = 1 /\ ~known THEN @ + 1 ELSE @,
                   !.fj = IF eof THEN 0 ELSE 1,
                   !.more = IF eof THEN another ELSE @,
                   !.esize = IF eof THEN esize ELSE @,
                   !.handed = NoCounter]
  /\ UNCHANGED <<pipeVars, journalVars, cliVars>>

\* the loop ends
SizesEnd ==
  /\ chunker # <<>>
  /\ chunker.pc = "loop"
  /\ ~(chunker.more \/ chunker.frags > 0)
  /\ chunker' = [chunker EXCEPT !.pc = "done", !.handed = NoCounter]
  /\ UNCHANGED <<pipeVars, journalVars, cliVars>>

SizesNext ==
  \/ SizesFlush
  \/ \E sz \in FragmentSizes, eof \in BOOLEAN, known \in BOOLEAN,
        hits \in FragmentSizes, another \in BOOLEAN, esize \in NextSizes :
       SizesFragment(sz, eof, known, hits, another, esize)
  \/ SizesEnd

SizesSpec == SizesInit /\ [][SizesNext]_vars

\* ------------------------------------- claims on the sizes of the blocks
\* C40: what add hands to the pipeline, the list of sizes included, is at
\* most the block size of the method, and the size assertions of
\* compressBlock hold on it.
C40_PayloadFits ==
  chunker # <<>> =>
    /\ chunker.handed <= BlockSize(chunker.method)
    /\ ~chunker.failed

\* a block that was flushed because it was full, after fragments of all
\* sizes, new and known, is handed over
C40_Witness ==
  /\ chunker # <<>>
  /\ chunker.handed > BlockSize(chunker.method) - MAX_FRAGMENT
  /\ chunker.zero
  /\ chunker.tiny = MaxTiny
  /\ chunker.method.arg = 0

=============================================================================
